---- MODULE Spec2Model ----
(***************************************************************************)
(* Verification model of the quantify / AlphaSentinel repository.          *)
(*                                                                         *)
(* Part 1: the model registry  (src/analysis/model_manager.py)             *)
(* Part 2: the exchange router (data_utils.py, dashboard_v6.py)            *)
(* Part 3: the position-ranking fetcher get_holding_rank_data              *)
(*         (data_utils.py copy and dashboard_v6.py copy)                   *)
(*                                                                         *)
(* Each part has its own specification (SpecMM, SpecRouter, SpecRank); the *)
(* variables of the other parts stay at their idle values.                 *)
(***************************************************************************)
EXTENDS Integers, Sequences, FiniteSets, TLC

VARIABLES
    \* ---- ModelManager (model_manager.py) ----
    models,        \* self.models: insertion-ordered dict, as a sequence of AIModel records
    active_model,  \* self.active_model: a reference (none / the stored object / a detached object)
    file,          \* the JSON registry file self.config_file
    mm_ret,        \* what the last registry operation returned
    mm_op,         \* the last registry operation: <<name, id argument>>
    saveFailures,  \* number of failed writes of the registry file so far
    \* ---- exchange router (get_exchange_by_symbol) ----
    r_symbol,      \* the symbol the router was last called with
    r_exchange,    \* its result, for the router of each copy of the fetcher
    r_called,      \* TRUE once the router has been called
    \* ---- get_holding_rank_data ----
    pc,            \* position in the call: idle, walk, finish, done, escaped
    h_copy,        \* which copy of the function runs
    h_symbol,      \* argument symbol
    h_data_type,   \* argument data_type
    now,           \* datetime.now() of the call: [weekday, minutes]
    day_offset,    \* loop variable of the day walk
    rank_df,       \* local rank_df (None or a table)
    data_date,     \* local data_date (None or the day offset of target_date_str)
    queried,       \* day offsets the endpoint was called for, in call order
    only_raised,   \* TRUE while every call of the endpoint so far raised
    only_empty,    \* TRUE while every call so far raised or returned no rows
    ret,           \* the returned tuple (data_df, data_date, error_msg)
    \* ---- one iteration of the day loop, on its own ----
    sel_copy,      \* which copy of the loop body ran
    sel_resp,      \* the response it was given
    sel_result,    \* what it did with it
    \* ---- two processes sharing the registry file ----
    cur,           \* the process whose ModelManager is in models / active_model
    parked,        \* the ModelManager of the other process
    wrote,         \* processes that completed a mutating operation that saved
    w_ops,         \* number of mutating operations each process has called
    last_writer,   \* process whose write is in the file (0: none, or a torn file)
    \* ---- the constructor guard of ModelManager ----
    cls_instance,  \* ModelManager._instance: 0 (None) or the index of an object
    objects,       \* the ModelManager objects created so far
    holders,       \* the calls ModelManager(config_file) made and what they returned
    files,         \* the registry file under each path
    \* ---- the LLM client of the StrategyManager ----
    ai_client,     \* StrategyManager.ai_client: the provider of the client object
    last_call,     \* the last analysis call: stage, provider called, active provider
    \* ---- one completion call of an LLM client ----
    llm_pc,        \* "idle", "attempt" (inside session.post) or "done"
    llm_client,    \* the client class of the call
    llm_total,     \* Retry.total: the retries that remain
    llm_history,   \* the answer to each HTTP attempt of the call, in order
    llm_result,    \* how the call ended: "returned" or the exception raised
    \* ---- _extract_json_response ----
    ex_text,       \* the response text, as a sequence of tokens
    ex_result,     \* what the call did: returned a value or raised
    \* ---- the StrategyManager pipeline and its scheduled jobs ----
    invocation,    \* the current or last scheduled invocation: job, running, failed, alerted
    pm_pc,         \* position in pre_market_scan: idle, a stage, report, returned, raised
    id_pc,         \* position in intraday_check: idle, pre_market_scan, fetch
    run_stages,    \* stages the current or last run of pre_market_scan started, in order
    run_report,    \* TRUE once that run called send_daily_report
    analysis_results, \* the dict returned by deep_analysis, in insertion order
    top_5_symbols, \* StrategyManager.top_5_symbols
    t5_called,      \* TRUE once select_top_5 was called on its own
    \* ---- the cache of DataLoader.get_futures_data ----
    ca_now,        \* datetime.now(), in hours
    cache,         \* the cache directory: the blob, if any, under each path
    ca_last,        \* the last call of get_futures_data: series, API called, returned
    \* ---- TechnicalCalculator: one call of an indicator calculator ----
    tc_df,         \* the bar table passed: its columns and its closes
    tc_call,       \* the calculator called and its window
    tc_result,      \* what the call did: returned a table or raised
    \* ---- get_option_pcr, both copies on one option table ----
    pcr_table,     \* the option table the copies were given
    pcr_result,     \* what each copy returned: pcr and type
    \* ---- AlphaScheduler: the jobs of the background scheduler ----
    aps_running,   \* TRUE once the background scheduler was started
    aps_pending,   \* jobs added before the start, in order
    aps_store,     \* the job store: one job per id
    sch_last,      \* the last add_* call: name, task, minutes
    sch_ret,       \* what that call returned
    sch_calls,      \* number of add_* calls so far
    \* ---- AlphaScheduler.start / stop called by concurrent threads ----
    sc_pc,         \* position of each thread: idle, acquire, check, call, set
    sc_op,         \* the method each thread is in: start or stop
    sc_lock,       \* self.lock: 0 when free, else the thread that holds it
    sc_running,    \* self.running
    und_running,   \* the state of the underlying BackgroundScheduler
    und_log,        \* the underlying start / shutdown calls, in order, with their outcome
    \* ---- scheduled jobs running in the executor's threads on one StrategyManager ----
    rc_pc,         \* position of each scheduled job's thread
    rc_sentiment,  \* the job that last wrote self.market_sentiment
    rc_top5,       \* self.top_5_symbols
    rc_latest,     \* the job that last wrote self.latest_analysis[symbol]
    rc_todo,       \* filtered_symbols still to analyse, of each thread running pre_market_scan
    rc_results,    \* analysis_results of each thread running pre_market_scan
    rc_fetched,    \* the list intraday_check fetched data for (line 348)
    rc_iterated,   \* the list intraday_check's loop iterates (line 352)
    rc_iter,       \* the rest of the list the loop iterates
    rc_intraday    \* the symbols in intraday_results

mmVars == <<models, active_model, file, mm_ret, mm_op, saveFailures>>
routerVars == <<r_symbol, r_exchange, r_called>>
rankVars == <<pc, h_copy, h_symbol, h_data_type, now, day_offset, rank_df, data_date,
              queried, only_raised, only_empty, ret>>
selVars == <<sel_copy, sel_resp, sel_result>>

writerVars == <<cur, parked, wrote, w_ops, last_writer>>
singletonVars == <<cls_instance, objects, holders, files>>
clientVars == <<ai_client, last_call>>
llmVars == <<llm_pc, llm_client, llm_total, llm_history, llm_result>>
coreVars == <<mmVars, routerVars, rankVars, selVars, writerVars, singletonVars, clientVars>>
extractVars == <<ex_text, ex_result>>
pipeVars == <<invocation, pm_pc, id_pc, run_stages, run_report, analysis_results,
              top_5_symbols, t5_called>>
cacheVars == <<ca_now, cache, ca_last>>
calcVars == <<tc_df, tc_call, tc_result>>
pcrVars == <<pcr_table, pcr_result>>
jobVars == <<aps_running, aps_pending, aps_store, sch_last, sch_ret, sch_calls>>
lockVars == <<sc_pc, sc_op, sc_lock, sc_running, und_running, und_log>>
raceVars == <<rc_pc, rc_sentiment, rc_top5, rc_latest, rc_todo, rc_results, rc_fetched, rc_iterated, rc_iter, rc_intraday>>
restVars == <<llmVars, extractVars, pipeVars, cacheVars, calcVars, pcrVars, jobVars, lockVars, raceVars>>
extVars == <<writerVars, singletonVars, clientVars, restVars>>

vars == <<mmVars, routerVars, rankVars, selVars, extVars>>

\* The two copies of the position-ranking code: data/data_utils.py (used by
\* the strategy pipeline) and dashboard_v6.py.
Copies == {"data_utils", "dashboard"}

(***************************************************************************)
(* Part 1.  ModelManager                                                   *)
(***************************************************************************)

\* Model ids. 0 stands for the id "siliconflow-default" of the default
\* configuration; 1..MaxUserIds are ids chosen by callers.
DefaultId == 0
MaxUserIds == 1
ModelIds == DefaultId .. MaxUserIds

\* Budget of injected failures of the file write in save_models.
MaxSaveFailures == 1

\* The fields of AIModel the registry logic reads or writes.  The payload
\* fields (name, provider, model_name, api_key, base_url, description) are
\* copied along with the object and never inspected by the registry.
AIModel == [id : ModelIds, is_active : BOOLEAN]

\* ---- references to AIModel objects -------------------------------------
\* self.active_model is a Python reference.  It is None, or the very object
\* stored in self.models under an id ("stored": its fields are read through
\* the registry), or an object that is no longer stored in self.models
\* ("orphan": nothing else references it, so its fields are frozen).
NoneRef == [kind |-> "none", id |-> DefaultId, is_active |-> FALSE]
StoredRef(id) == [kind |-> "stored", id |-> id, is_active |-> FALSE]
OrphanRef(m) == [kind |-> "orphan", id |-> m.id, is_active |-> m.is_active]

Ids(ms) == {ms[i].id : i \in DOMAIN ms}

IndexOf(ms, id) == CHOOSE i \in DOMAIN ms : ms[i].id = id

Lookup(ms, id) == ms[IndexOf(ms, id)]

RemoveAt(ms, k) == [i \in 1 .. (Len(ms) - 1) |-> IF i < k THEN ms[i] ELSE ms[i + 1]]

\* "for model in self.models.values(): model.is_active = False"
ClearAll(ms) == [i \in DOMAIN ms |-> [ms[i] EXCEPT !.is_active = FALSE]]

\* The object self.active_model refers to, as a record, or NoneRef.
Deref(ms, ref) ==
    IF ref.kind = "stored" THEN [kind |-> "stored", id |-> ref.id,
                                 is_active |-> Lookup(ms, ref.id).is_active]
    ELSE ref

\* get_active_model()
get_active_model == Deref(models, active_model)

\* A reference to the object stored under id, seen after that object has
\* been taken out of (or replaced in) the registry ms.
Detach(ms, ref, id) ==
    IF ref.kind = "stored" /\ ref.id = id THEN OrphanRef(Lookup(ms, id)) ELSE ref

\* ---- the registry file --------------------------------------------------
FileMissing == [state |-> "missing", data |-> <<>>]
\* asdict(model): the dict of the fields of one model
asdict(m) == [id |-> m.id, is_active |-> m.is_active]
\* The file after json.dump([asdict(model) for model in ...]) succeeded.
FileOf(ms) == [state |-> "ok", data |-> [i \in DOMAIN ms |-> asdict(ms[i])]]
FileCorrupt == [state |-> "corrupt", data |-> <<>>]

\* Outcomes of save_models: the write succeeds; open() raises and the file
\* is untouched; json.dump raises after open(..., 'w') truncated the file.
SaveOutcomes == {"ok", "open_failed", "dump_failed"}

CanFail(outcome) == outcome = "ok" \/ saveFailures < MaxSaveFailures

\* Variant of save_models that reports success whatever happened to the file.
save_modelsAlwaysTrue(ms, outcome) ==
    CASE outcome = "ok" -> [file |-> FileOf(ms), ret |-> TRUE]
      [] outcome = "open_failed" -> [file |-> file, ret |-> TRUE]
      [] OTHER -> [file |-> FileCorrupt, ret |-> TRUE]

\* save_models: the new file content and the returned flag.
save_models(ms, outcome) ==
    CASE outcome = "ok" -> [file |-> FileOf(ms), ret |-> TRUE]
      [] outcome = "open_failed" -> [file |-> file, ret |-> FALSE]
      [] OTHER -> [file |-> FileCorrupt, ret |-> FALSE]

\* ---- load_models ---------------------------------------------------------
\* The loop of load_models over the first n entries of the file: every model
\* is stored; a model flagged active becomes active_model and the flags of
\* all models stored so far are cleared.
RECURSIVE LoadLoop(_, _)
LoadLoop(data, n) ==
    IF n = 0 THEN [models |-> <<>>, active |-> NoneRef]
    ELSE LET prev == LoadLoop(data, n - 1)
             m == data[n]
         IN IF m.is_active
            THEN [models |-> Append(ClearAll(prev.models), m), active |-> StoredRef(m.id)]
            ELSE [models |-> Append(prev.models, m), active |-> prev.active]

load_models(data) == LoadLoop(data, Len(data))

\* _create_default_config
DefaultModel == [id |-> DefaultId, is_active |-> TRUE]

\* Well-formed registry files a previous run may have left behind.
RegistryFiles ==
    {ms \in UNION {[1 .. n -> AIModel] : n \in 0 .. Cardinality(ModelIds)} :
        \A i, j \in DOMAIN ms : i # j => ms[i].id # ms[j].id}

\* ---- add_model -----------------------------------------------------------
AddFirstActive(ms, m) == IF ms = <<>> THEN [m EXCEPT !.is_active = TRUE] ELSE m

add_model(m, outcome) ==
    /\ CanFail(outcome)
    /\ mm_op' = <<"add_model", m.id>>
    /\ IF m.id \in Ids(models)
       THEN /\ mm_ret' = FALSE
            /\ UNCHANGED <<models, active_model, file, saveFailures>>
       ELSE LET stored == AddFirstActive(models, m)
                ms == Append(models, stored)
                sv == save_models(ms, outcome)
            IN /\ models' = ms
               /\ active_model' = IF models = <<>> THEN StoredRef(m.id) ELSE active_model
               /\ file' = sv.file
               /\ mm_ret' = sv.ret
               /\ saveFailures' = IF outcome = "ok" THEN saveFailures ELSE saveFailures + 1

\* ---- update_model --------------------------------------------------------
update_model(model_id, updated_model, outcome) ==
    /\ CanFail(outcome)
    /\ mm_op' = <<"update_model", model_id>>
    /\ IF model_id \notin Ids(models)
       THEN /\ mm_ret' = FALSE
            /\ UNCHANGED <<models, active_model, file, saveFailures>>
       ELSE LET upd == [updated_model EXCEPT !.id = model_id]
                k == IndexOf(models, model_id)
                cleared == IF upd.is_active THEN ClearAll(models) ELSE models
                ms == [cleared EXCEPT ![k] = upd]
                sv == save_models(ms, outcome)
            IN /\ models' = ms
               /\ active_model' = IF upd.is_active THEN StoredRef(model_id)
                                  ELSE Detach(models, active_model, model_id)
               /\ file' = sv.file
               /\ mm_ret' = sv.ret
               /\ saveFailures' = IF outcome = "ok" THEN saveFailures ELSE saveFailures + 1

\* ---- delete_model --------------------------------------------------------
\* The registry after the "re-elect" block of delete_model, before the del.
ReElect(ms, model_id) ==
    IF Lookup(ms, model_id).is_active /\ Len(ms) > 1 /\ ms[1].id # model_id
    THEN [ms EXCEPT ![1].is_active = TRUE]
    ELSE ms

ReElectRef(ms, ref, model_id) ==
    IF Lookup(ms, model_id).is_active
    THEN IF Len(ms) > 1 /\ ms[1].id # model_id THEN StoredRef(ms[1].id) ELSE NoneRef
    ELSE ref

delete_model(model_id, outcome) ==
    /\ CanFail(outcome)
    /\ mm_op' = <<"delete_model", model_id>>
    /\ IF model_id \notin Ids(models)
       THEN /\ mm_ret' = FALSE
            /\ UNCHANGED <<models, active_model, file, saveFailures>>
       ELSE LET k == IndexOf(models, model_id)
                ms == RemoveAt(ReElect(models, model_id), k)
                sv == save_models(ms, outcome)
            IN /\ models' = ms
               /\ active_model' = Detach(models, ReElectRef(models, active_model, model_id), model_id)
               /\ file' = sv.file
               /\ mm_ret' = sv.ret
               /\ saveFailures' = IF outcome = "ok" THEN saveFailures ELSE saveFailures + 1

\* ---- set_active_model ----------------------------------------------------
set_active_model(model_id, outcome) ==
    /\ CanFail(outcome)
    /\ mm_op' = <<"set_active_model", model_id>>
    /\ IF model_id \notin Ids(models)
       THEN /\ mm_ret' = FALSE
            /\ UNCHANGED <<models, active_model, file, saveFailures>>
       ELSE LET k == IndexOf(models, model_id)
                ms == [ClearAll(models) EXCEPT ![k].is_active = TRUE]
                sv == save_models(ms, outcome)
            IN /\ models' = ms
               /\ active_model' = StoredRef(model_id)
               /\ file' = sv.file
               /\ mm_ret' = sv.ret
               /\ saveFailures' = IF outcome = "ok" THEN saveFailures ELSE saveFailures + 1

\* Number of stored models flagged active.
ActiveCount(ms) == Cardinality({i \in DOMAIN ms : ms[i].is_active})

(***************************************************************************)
(* Part 2.  Exchange router                                                *)
(***************************************************************************)

\* Strings are sequences of one-character strings: "rb2505" is
\* <<"r", "b", "2", "5", "0", "5">>.
LowerLetters == <<"a", "b", "c", "d", "e", "f", "g", "h", "i", "j", "k", "l", "m",
                  "n", "o", "p", "q", "r", "s", "t", "u", "v", "w", "x", "y", "z">>
UpperLetters == <<"A", "B", "C", "D", "E", "F", "G", "H", "I", "J", "K", "L", "M",
                  "N", "O", "P", "Q", "R", "S", "T", "U", "V", "W", "X", "Y", "Z">>
Digits == {"0", "1", "2", "3", "4", "5", "6", "7", "8", "9"}

\* str.isdigit() of one character
IsDigit(c) == c \in Digits

UpperChar(c) ==
    IF \E i \in DOMAIN LowerLetters : LowerLetters[i] = c
    THEN UpperLetters[CHOOSE i \in DOMAIN LowerLetters : LowerLetters[i] = c]
    ELSE c

LowerChar(c) ==
    IF \E i \in DOMAIN UpperLetters : UpperLetters[i] = c
    THEN LowerLetters[CHOOSE i \in DOMAIN UpperLetters : UpperLetters[i] = c]
    ELSE c

\* str.upper() and str.lower()
Upper(s) == [i \in DOMAIN s |-> UpperChar(s[i])]
Lower(s) == [i \in DOMAIN s |-> LowerChar(s[i])]

\* s[:n]
Prefix(s, n) == SubSeq(s, 1, IF n < Len(s) THEN n ELSE Len(s))

\* FUTURE_EXCHANGE_MAP, as the set of its <<key, exchange>> items.  The two
\* copies of the table (data_utils.py and dashboard_v6.py) are identical.
FUTURE_EXCHANGE_MAP ==
    {<<<<"r", "b">>, "SHFE">>, <<<<"h", "c">>, "SHFE">>, <<<<"b", "u">>, "SHFE">>,
     <<<<"r", "u">>, "SHFE">>, <<<<"b", "r">>, "SHFE">>, <<<<"f", "u">>, "SHFE">>,
     <<<<"s", "p">>, "SHFE">>, <<<<"c", "u">>, "SHFE">>, <<<<"a", "l">>, "SHFE">>,
     <<<<"a", "o">>, "SHFE">>, <<<<"p", "b">>, "SHFE">>, <<<<"z", "n">>, "SHFE">>,
     <<<<"s", "n">>, "SHFE">>, <<<<"n", "i">>, "SHFE">>, <<<<"s", "s">>, "SHFE">>,
     <<<<"a", "u">>, "SHFE">>, <<<<"a", "g">>, "SHFE">>, <<<<"w", "r">>, "SHFE">>,
     <<<<"a">>, "DCE">>, <<<<"b">>, "DCE">>, <<<<"c">>, "DCE">>,
     <<<<"c", "s">>, "DCE">>, <<<<"m">>, "DCE">>, <<<<"y">>, "DCE">>,
     <<<<"p">>, "DCE">>, <<<<"i">>, "DCE">>, <<<<"j">>, "DCE">>,
     <<<<"j", "m">>, "DCE">>, <<<<"l">>, "DCE">>, <<<<"v">>, "DCE">>,
     <<<<"p", "p">>, "DCE">>, <<<<"e", "g">>, "DCE">>, <<<<"r", "r">>, "DCE">>,
     <<<<"e", "b">>, "DCE">>, <<<<"T", "A">>, "CZCE">>, <<<<"M", "A">>, "CZCE">>,
     <<<<"R", "M">>, "CZCE">>, <<<<"R", "S">>, "CZCE">>, <<<<"O", "I">>, "CZCE">>,
     <<<<"S", "R">>, "CZCE">>, <<<<"C", "F">>, "CZCE">>, <<<<"Z", "C">>, "CZCE">>,
     <<<<"F", "G">>, "CZCE">>, <<<<"L", "R">>, "CZCE">>, <<<<"R", "I">>, "CZCE">>,
     <<<<"W", "H">>, "CZCE">>, <<<<"J", "R">>, "CZCE">>, <<<<"T", "C">>, "CZCE">>,
     <<<<"I", "F">>, "CFFEX">>, <<<<"I", "H">>, "CFFEX">>, <<<<"I", "C">>, "CFFEX">>,
     <<<<"T", "F">>, "CFFEX">>, <<<<"T">>, "CFFEX">>, <<<<"T", "S">>, "CFFEX">>}

MapKeys == {e[1] : e \in FUTURE_EXCHANGE_MAP}

\* FUTURE_EXCHANGE_MAP[key]
MapGet(key) == (CHOOSE e \in FUTURE_EXCHANGE_MAP : e[1] = key)[2]

\* The value None of an unrecognised symbol.
NoExchange == "None"

\* Index of the first digit of the symbol, or Len + 1 when it has none
\* (the for/else of the extraction loop).
FirstDigit(symbol) ==
    IF \E i \in DOMAIN symbol : IsDigit(symbol[i])
    THEN CHOOSE i \in DOMAIN symbol :
            IsDigit(symbol[i]) /\ \A j \in 1 .. (i - 1) : ~IsDigit(symbol[j])
    ELSE Len(symbol) + 1

\* product_code / variety_code: the letters before the first digit, upper-cased
ProductCode(symbol) == Upper(SubSeq(symbol, 1, FirstDigit(symbol) - 1))

\* get_exchange_by_symbol of data_utils.py; the first definition of
\* dashboard_v6.py (lines 90-137) is the same code.
get_exchange_by_symbol(symbol) ==
    LET product_code == ProductCode(symbol)
        two_letter == Prefix(product_code, 2)
        one_letter == Prefix(product_code, 1)
    IN IF product_code \in MapKeys THEN MapGet(product_code)
       ELSE IF Len(product_code) >= 2 /\ two_letter \in MapKeys THEN MapGet(two_letter)
       ELSE IF one_letter \in MapKeys THEN MapGet(one_letter)
       ELSE NoExchange

\* The second definition of get_exchange_by_symbol in dashboard_v6.py.  It
\* rebinds the module-level name, so it is the router the dashboard's
\* get_holding_rank_data calls.
get_exchange_by_symbol_dashboard(symbol) ==
    LET two == Lower(Prefix(symbol, 2))
        one == Lower(Prefix(symbol, 1))
    IN IF Len(symbol) >= 2 /\ two \in MapKeys THEN MapGet(two)
       ELSE IF Len(symbol) >= 1 /\ one \in MapKeys THEN MapGet(one)
       ELSE "SHFE"

\* The router each copy of the fetcher calls.
RouterOf(copy, symbol) ==
    IF copy = "data_utils" THEN get_exchange_by_symbol(symbol)
    ELSE get_exchange_by_symbol_dashboard(symbol)

(***************************************************************************)
(* Part 3.  Position-ranking fetcher get_holding_rank_data                 *)
(***************************************************************************)

\* ---- the clock ------------------------------------------------------------
\* datetime.now() is a weekday (0 = Monday .. 6 = Sunday, as
\* datetime.weekday()) and a minute of the day.
CutoffHour == 16
CutoffMinute == 30
Saturday == 5
Sunday == 6

\* update_time = now.replace(hour=16, minute=30, second=0, microsecond=0)
UpdateTime == CutoffHour * 60 + CutoffMinute

\* max_days = 30
max_days == 30

\* start_day of the walk.  The dashboard copy skips today before the
\* publication time; the data_utils copy iterates range(max_days), from 0.
StartDay(copy, minutes) ==
    IF copy = "dashboard"
    THEN (IF minutes < UpdateTime THEN 1 ELSE 0)
    ELSE 0

\* (now - timedelta(days=day_offset)).weekday()
TargetWeekday(weekday, offset) == (weekday - offset) % 7

\* Variant of IsWeekend that skips Sundays only.
IsWeekendSundayOnly(wd) == wd \in {Sunday}

\* target_date.weekday() in [5, 6]
IsWeekend(wd) == wd \in {Saturday, Sunday}

\* ---- tables ---------------------------------------------------------------
\* A DataFrame of the ranking endpoint: its number of rows, the set of its
\* column names and, when it has a date column, whether the first value of
\* that column contains the requested date.
\* Column names written in Chinese in the source are transliterated:
\*   mingci = rank, huiyuan_jiancheng = member short name, shuzhi = value,
\*   zengjian = change, chengjiaoliang = volume, duodan_chicang = long
\*   position, kongdan_chicang = short position.
StdCols ==
    {"rank", "vol_party_name", "vol", "vol_chg",
     "long_party_name", "long_open_interest", "long_open_interest_chg",
     "short_party_name", "short_open_interest", "short_open_interest_chg",
     "symbol", "variety"}
Alt1Cols ==
    {"rank", "volume_member", "volume", "volume_change",
     "long_member", "long_position", "long_position_change",
     "short_member", "short_position", "short_position_change"}
Alt2Cols ==
    {"rank", "member", "volume", "change", "long", "long_change", "short", "short_change"}
CnCols ==
    {"mingci", "huiyuan_jiancheng", "chengjiaoliang", "zengjian",
     "duodan_chicang", "kongdan_chicang"}
\* The party and value columns without rank and change columns.
PartialCols ==
    {"vol_party_name", "vol", "long_party_name", "long_open_interest",
     "short_party_name", "short_open_interest"}
OtherCols == {"contract", "price"}

\* The unified schema ['mingci', 'huiyuan_jiancheng', 'shuzhi', 'zengjian'].
UnifiedCols == <<"mingci", "huiyuan_jiancheng", "shuzhi", "zengjian">>

\* Row counts at the edges the code distinguishes: empty, fewer than the 5
\* rows the dashboard requires, exactly 5, more than the 20 rows kept.
MinRows == 5
TopN == 20
RowCounts == {0, MinRows - 1, MinRows, TopN + 1}

Table(rows, cols, date_ok) == [rows |-> rows, cols |-> cols, date_ok |-> date_ok]

StdTables == {Table(n, StdCols, FALSE) : n \in RowCounts}

Tables ==
    StdTables \cup
    {Table(TopN + 1, c, FALSE) : c \in {Alt1Cols, Alt2Cols, CnCols, PartialCols, OtherCols}} \cup
    {Table(TopN + 1, StdCols \cup {"date"}, ok) : ok \in BOOLEAN}

\* DataFrame.empty
Empty(df) == df.rows = 0 \/ df.cols = {}

\* Optional values: <<>> is None, <<v>> is the value v.
None == <<>>
Some(v) == <<v>>

\* ---- responses of the ranking endpoint -----------------------------------
\* rank_api(date=..., vars_list=[...]) raises, returns nothing (None or an
\* empty dict), or returns a dict contract -> table: own is the table under
\* the requested symbol (if that key is present), others are the tables of
\* the other keys in the order of the dict.
RaiseResponse == [kind |-> "raise", own |-> None, others |-> <<>>]
NoneResponse == [kind |-> "none", own |-> None, others |-> <<>>]
DictResponse(own, others) == [kind |-> "dict", own |-> own, others |-> others]

OwnChoices == {None} \cup {Some(t) : t \in Tables}

OthersUpTo(n) == UNION {[1 .. k -> StdTables] : k \in 0 .. n}

ResponsesUpTo(n) ==
    {RaiseResponse, NoneResponse} \cup
    ({DictResponse(own, others) : own \in OwnChoices, others \in OthersUpTo(n)}
        \ {DictResponse(None, <<>>)})

\* The response carries no rows: the call raised, returned nothing, or every
\* table of the dict is empty.
NoRows(resp) ==
    /\ resp.own # None => Empty(resp.own[1])
    /\ \A k \in DOMAIN resp.others : Empty(resp.others[k])

\* ---- one iteration of the day loop ---------------------------------------
\* Result of the body of the loop for one response: the day is accepted with
\* a table (contract 0 is the requested symbol, k > 0 the k-th other key),
\* the loop goes on, or an exception is raised inside the inner try.
Accept(df, contract) == [kind |-> "accept", df |-> Some(df), contract |-> contract]
Continue == [kind |-> "continue", df |-> None, contract |-> 0]
Raise == [kind |-> "raise", df |-> None, contract |-> 0]

\* data_utils.py lines 198-221
ProcessDay_data_utils(resp) ==
    IF resp.kind = "raise" THEN Raise
    ELSE IF resp.kind = "none" THEN Continue
    ELSE IF resp.own # None THEN Accept(resp.own[1], 0)
    ELSE Accept(resp.others[1], 1)

\* dashboard_v6.py lines 246-259: a table with a date column is taken only
\* when the first date it holds contains the requested date.
DateValid(df) == ("date" \in df.cols) => df.date_ok

\* Variant of EnoughRows that only asks for a non-empty table.
EnoughRowsNonEmpty(df) == ~Empty(df)

\* dashboard_v6.py line 279 (and 242-244 for the requested contract)
EnoughRows(df) == ~Empty(df) /\ df.rows >= MinRows

\* Variant of FirstUsable that takes the last usable contract.
FirstUsableLast(others) ==
    IF \E k \in DOMAIN others : EnoughRows(others[k])
    THEN CHOOSE k \in DOMAIN others :
            EnoughRows(others[k]) /\ \A j \in (k + 1) .. Len(others) : ~EnoughRows(others[j])
    ELSE 0

\* dashboard_v6.py lines 278-286: the first other contract with enough rows
FirstUsable(others) ==
    IF \E k \in DOMAIN others : EnoughRows(others[k])
    THEN CHOOSE k \in DOMAIN others :
            EnoughRows(others[k]) /\ \A j \in 1 .. (k - 1) : ~EnoughRows(others[j])
    ELSE 0

\* dashboard_v6.py lines 232-288
ProcessDay_dashboard(resp) ==
    IF resp.kind = "raise" THEN Raise
    ELSE IF resp.kind = "none" THEN Continue
    ELSE IF resp.own # None
         THEN (IF EnoughRows(resp.own[1]) /\ DateValid(resp.own[1])
               THEN Accept(resp.own[1], 0)
               ELSE Continue)
         ELSE (IF FirstUsable(resp.others) # 0
               THEN Accept(resp.others[FirstUsable(resp.others)], FirstUsable(resp.others))
               ELSE Continue)

ProcessDay(copy, resp) ==
    IF copy = "data_utils" THEN ProcessDay_data_utils(resp) ELSE ProcessDay_dashboard(resp)

\* Variant of InnerExcept that lets the exception of one day propagate.
InnerExceptReraise(r) == r

\* "except Exception as e: ... continue" around the body of the loop
InnerExcept(r) == IF r.kind = "raise" THEN Continue ELSE r

\* Variant of LoopControl without the break.
LoopControlNoBreak(r) == "next"

\* "break" after a day has been accepted
LoopControl(r) == IF r.kind = "accept" THEN "break" ELSE "next"

\* ---- normalisation --------------------------------------------------------
\* Data types.  chengjiaoliang_paiming and chengjiaoliang select the volume
\* ranking, duodan_chicang the long and kongdan_chicang the short ranking.
DataTypes == {"chengjiaoliang_paiming", "chengjiaoliang", "duodan_chicang",
              "kongdan_chicang", "unknown"}

EmptyDF == [rows |-> 0, cols |-> <<>>]

\* Variant of ErrorReturn that hands back the table fetched so far together
\* with the message.
ErrorReturnWithTable(msg) ==
    [kind |-> "return",
     df |-> IF rank_df = None THEN EmptyDF ELSE [rows |-> rank_df[1].rows, cols |-> <<>>],
     date |-> None, err |-> msg]

\* "return pd.DataFrame(), None, <message>"
ErrorReturn(msg) == [kind |-> "return", df |-> EmptyDF, date |-> None, err |-> msg]

Raised == [kind |-> "raise", df |-> EmptyDF, date |-> None, err |-> "None"]

SeqRange(q) == {q[i] : i \in DOMAIN q}

\* rank_df[cols]: KeyError when a column is missing
Select(df, cols) ==
    IF SeqRange(cols) \subseteq df.cols
    THEN [kind |-> "ok", rows |-> df.rows, cols |-> cols]
    ELSE [kind |-> "raise", rows |-> 0, cols |-> <<>>]

\* rank_df.columns = names: ValueError on a length mismatch
Rename(t, names) ==
    IF t.kind = "ok" /\ Len(t.cols) = Len(names)
    THEN [t EXCEPT !.cols = names]
    ELSE [kind |-> "raise", rows |-> 0, cols |-> <<>>]

\* Variant of head that keeps every row.
headAll(t, n) == t

\* rank_df.head(20)
head(t, n) == [t EXCEPT !.rows = IF t.rows < n THEN t.rows ELSE n]

\* The successful return, or the exception of Select / Rename.
Unified(df, cols, date) ==
    LET t == Rename(Select(df, cols), UnifiedCols)
    IN IF t.kind = "raise" THEN Raised
       ELSE [kind |-> "return",
             df |-> [rows |-> head(t, TopN).rows, cols |-> head(t, TopN).cols],
             date |-> date, err |-> "None"]

\* The column lists of one data type: the two columns tested first, the four
\* columns then selected, the alternative lists of the dashboard copy and
\* the error message.
ColumnPlan(data_type) ==
    IF data_type \in {"chengjiaoliang_paiming", "chengjiaoliang"}
    THEN [test |-> {"vol_party_name", "vol"},
          cols |-> <<"rank", "vol_party_name", "vol", "vol_chg">>,
          possible_columns |-> << <<"rank", "volume_member", "volume", "volume_change">>,
                                  <<"rank", "member", "volume", "change">>,
                                  <<"mingci", "huiyuan_jiancheng", "chengjiaoliang", "zengjian">> >>,
          err |-> "missing_volume_columns"]
    ELSE IF data_type = "duodan_chicang"
    THEN [test |-> {"long_party_name", "long_open_interest"},
          cols |-> <<"rank", "long_party_name", "long_open_interest", "long_open_interest_chg">>,
          possible_columns |-> << <<"rank", "long_member", "long_position", "long_position_change">>,
                                  <<"rank", "member", "long", "long_change">>,
                                  <<"mingci", "huiyuan_jiancheng", "duodan_chicang", "zengjian">> >>,
          err |-> "missing_long_columns"]
    ELSE [test |-> {"short_party_name", "short_open_interest"},
          cols |-> <<"rank", "short_party_name", "short_open_interest", "short_open_interest_chg">>,
          possible_columns |-> << <<"rank", "short_member", "short_position", "short_position_change">>,
                                  <<"rank", "member", "short", "short_change">>,
                                  <<"mingci", "huiyuan_jiancheng", "kongdan_chicang", "zengjian">> >>,
          err |-> "missing_short_columns"]

\* Index of the first list of possible_columns whose columns are all present.
FirstPossible(df, lists) ==
    IF \E k \in DOMAIN lists : SeqRange(lists[k]) \subseteq df.cols
    THEN CHOOSE k \in DOMAIN lists :
            /\ SeqRange(lists[k]) \subseteq df.cols
            /\ \A j \in 1 .. (k - 1) : ~(SeqRange(lists[j]) \subseteq df.cols)
    ELSE 0

\* data_utils.py lines 232-261 / dashboard_v6.py lines 307-378
Normalize(copy, data_type, df, date) ==
    IF data_type \notin (DataTypes \ {"unknown"}) THEN ErrorReturn("invalid_data_type")
    ELSE LET plan == ColumnPlan(data_type)
         IN IF plan.test \subseteq df.cols THEN Unified(df, plan.cols, date)
            ELSE IF copy = "dashboard" /\ FirstPossible(df, plan.possible_columns) # 0
                 THEN Unified(df, plan.possible_columns[FirstPossible(df, plan.possible_columns)], date)
                 ELSE ErrorReturn(plan.err)

\* The code after the loop: data_utils.py lines 228-261 /
\* dashboard_v6.py lines 303-378
AfterLoop(copy, data_type, df_opt, date) ==
    IF df_opt = None \/ Empty(df_opt[1]) THEN ErrorReturn("no_data")
    ELSE Normalize(copy, data_type, df_opt[1], date)

\* "except Exception as e: return pd.DataFrame(), None, <message>" around
\* the whole function
OuterExcept(r) == IF r.kind = "raise" THEN ErrorReturn("fetch_failed") ELSE r

\* The exchanges with a ranking endpoint (the if/elif chain on exchange).
SupportedExchanges == {"SHFE", "DCE", "CZCE", "CFFEX", "GFEX"}

\* ---- inputs of the router specification ----------------------------------
\* Letters the checked symbols are built from, and the longest letter code.
RouterLetters == {"r", "b", "m", "a", "l", "T", "A", "I", "F", "x"}
MaxCodeLen == 2
ContractMonth == <<"2", "5", "0", "5">>

LetterCodes == UNION {[1 .. n -> RouterLetters] : n \in 0 .. MaxCodeLen}

\* Symbols: a letter code alone, or followed by a contract month.
RouterSymbols == LetterCodes \cup {code \o ContractMonth : code \in LetterCodes}

\* One call of the router of each copy on the same symbol.
Route(symbol) ==
    /\ r_symbol' = symbol
    /\ r_exchange' = [c \in Copies |-> RouterOf(c, symbol)]
    /\ r_called' = TRUE
    /\ UNCHANGED <<mmVars, rankVars, selVars, extVars>>

RouteSymbol == \E symbol \in RouterSymbols : Route(symbol)

\* ---- inputs of the fetcher specification ---------------------------------
RB2505 == <<"r", "b", "2", "5", "0", "5">>
TA2505 == <<"T", "A", "2", "5", "0", "5">>
RankSymbols == {RB2505, TA2505}

\* Times of the call: every weekday, one minute before and exactly at the
\* publication time.
NowChoices == [weekday : 0 .. 6, minutes : {UpdateTime - 1, UpdateTime}]

\* Largest number of other contracts in one response of the endpoint.
MaxOthers == 1
MaxSelectOthers == 2

\* ---- get_holding_rank_data as a state machine ----------------------------
\* The call up to the loop: routing, the if/elif chain on the exchange, the
\* initialisation of the locals and of the walk.
Call(c, sym, dt, t) ==
    /\ pc = "idle"
    /\ h_copy' = c
    /\ h_symbol' = sym
    /\ h_data_type' = dt
    /\ now' = t
    /\ rank_df' = None
    /\ data_date' = None
    /\ queried' = <<>>
    /\ only_raised' = TRUE
    /\ only_empty' = TRUE
    /\ IF RouterOf(c, sym) \in SupportedExchanges
       THEN /\ pc' = "walk"
            /\ day_offset' = StartDay(c, t.minutes)
            /\ ret' = ret
       ELSE /\ pc' = "done"
            /\ day_offset' = day_offset
            /\ ret' = ErrorReturn("unsupported_exchange")
    /\ UNCHANGED <<mmVars, routerVars, selVars, extVars>>

\* An iteration for a Saturday or Sunday: "continue" before the endpoint is called.
SkipWeekend ==
    /\ pc = "walk"
    /\ day_offset < max_days
    /\ IsWeekend(TargetWeekday(now.weekday, day_offset))
    /\ day_offset' = day_offset + 1
    /\ UNCHANGED <<pc, h_copy, h_symbol, h_data_type, now, rank_df, data_date, queried,
                   only_raised, only_empty, ret>>
    /\ UNCHANGED <<mmVars, routerVars, selVars, extVars>>

\* An iteration for a weekday: the endpoint is called and answers resp.
Query(resp) ==
    /\ pc = "walk"
    /\ day_offset < max_days
    /\ ~IsWeekend(TargetWeekday(now.weekday, day_offset))
    /\ queried' = Append(queried, day_offset)
    /\ only_raised' = (only_raised /\ resp.kind = "raise")
    /\ only_empty' = (only_empty /\ NoRows(resp))
    /\ LET r == InnerExcept(ProcessDay(h_copy, resp))
       IN /\ rank_df' = IF r.kind = "accept" THEN r.df ELSE rank_df
          /\ data_date' = IF r.kind = "accept" THEN Some(day_offset) ELSE data_date
          /\ IF r.kind = "raise"
             THEN \* not caught inside the loop: the handler of the function takes it
                  /\ pc' = IF OuterExcept(Raised).kind = "raise" THEN "escaped" ELSE "done"
                  /\ ret' = OuterExcept(Raised)
                  /\ day_offset' = day_offset
             ELSE IF LoopControl(r) = "break"
             THEN /\ pc' = "finish"
                  /\ ret' = ret
                  /\ day_offset' = day_offset
             ELSE /\ pc' = "walk"
                  /\ ret' = ret
                  /\ day_offset' = day_offset + 1
    /\ UNCHANGED <<h_copy, h_symbol, h_data_type, now>>
    /\ UNCHANGED <<mmVars, routerVars, selVars, extVars>>

\* The answers the endpoint may give to one call of the walk.
WalkResponses == ResponsesUpTo(MaxOthers)

QueryDay == \E resp \in WalkResponses : Query(resp)

\* range(start_day, max_days) is exhausted.
LoopExit ==
    /\ pc = "walk"
    /\ day_offset >= max_days
    /\ pc' = "finish"
    /\ UNCHANGED <<h_copy, h_symbol, h_data_type, now, day_offset, rank_df, data_date, queried,
                   only_raised, only_empty, ret>>
    /\ UNCHANGED <<mmVars, routerVars, selVars, extVars>>

\* The code after the loop, up to the return.
Finish ==
    /\ pc = "finish"
    /\ LET r == OuterExcept(AfterLoop(h_copy, h_data_type, rank_df, data_date))
       IN /\ ret' = r
          /\ pc' = IF r.kind = "raise" THEN "escaped" ELSE "done"
    /\ UNCHANGED <<h_copy, h_symbol, h_data_type, now, day_offset, rank_df, data_date, queried,
                   only_raised, only_empty>>
    /\ UNCHANGED <<mmVars, routerVars, selVars, extVars>>

CallFetcher ==
    \E c \in Copies, sym \in RankSymbols, dt \in DataTypes, t \in NowChoices :
        Call(c, sym, dt, t)

\* The body of the loop applied to one response.
Select1(c, resp) ==
    /\ sel_copy' = c
    /\ sel_resp' = resp
    /\ sel_result' = ProcessDay(c, resp)
    /\ UNCHANGED <<mmVars, routerVars, rankVars, extVars>>

SelectResponses == ResponsesUpTo(MaxSelectOthers)

SelectDay == \E c \in Copies, resp \in SelectResponses : Select1(c, resp)

\* ---- two processes, one registry file ----------------------------------
\* Each process has its own ModelManager, loaded from the same file.  The
\* operations of the process in focus act on models / active_model; the
\* ModelManager of the other process is kept in parked.  Operations are
\* taken whole, one after the other.
Writers == {1, 2}

\* Number of mutating operations one process calls.
MaxWriterOps == 2

Memory == [models |-> models, active_model |-> active_model, mm_ret |-> mm_ret,
           mm_op |-> mm_op]

\* The other process is scheduled.
Switch ==
    /\ cur' = 3 - cur
    /\ parked' = Memory
    /\ models' = parked.models
    /\ active_model' = parked.active_model
    /\ mm_ret' = parked.mm_ret
    /\ mm_op' = parked.mm_op
    /\ UNCHANGED <<file, saveFailures, wrote, w_ops, last_writer>>
    /\ UNCHANGED <<routerVars, rankVars, selVars, singletonVars, clientVars, restVars>>

\* Bookkeeping of a mutating operation of the process in focus: a True
\* return means its registry is in the file; a torn write leaves nobody's.
Wrote ==
    /\ w_ops[cur] < MaxWriterOps
    /\ w_ops' = [w_ops EXCEPT ![cur] = @ + 1]
    /\ wrote' = IF mm_ret' THEN wrote \cup {cur} ELSE wrote
    /\ last_writer' = IF mm_ret' THEN cur
                      ELSE IF file'.state = "corrupt" THEN 0 ELSE last_writer
    /\ UNCHANGED <<cur, parked>>
    /\ UNCHANGED <<routerVars, rankVars, selVars, singletonVars, clientVars, restVars>>

WriterAdd == (\E m \in AIModel, o \in SaveOutcomes : add_model(m, o)) /\ Wrote
WriterUpdate ==
    (\E id \in ModelIds, m \in AIModel, o \in SaveOutcomes : update_model(id, m, o)) /\ Wrote
WriterDelete == (\E id \in ModelIds, o \in SaveOutcomes : delete_model(id, o)) /\ Wrote
WriterSetActive == (\E id \in ModelIds, o \in SaveOutcomes : set_active_model(id, o)) /\ Wrote

\* ---- ModelManager(config_file) and get_model_manager(config_file) --------
\* Paths of registry files: the default path '../config/models.json' and one
\* other path a caller may pass.
ConfigFiles == {"default", "other"}

\* The config_file argument: None or a path.
ConfigArgs == {"None"} \cup ConfigFiles

\* Number of constructor calls followed.
MaxHolders == 3

\* "config_file or os.path.join(..., '../config/models.json')"
ConfigPath(arg) == IF arg = "None" THEN "default" ELSE arg

\* __init__ on one object: the fields after config_file, models and
\* active_model are reset and load_models has run, and the files after it.
\* A missing or unreadable file is replaced by the default configuration.
init(arg, fs) ==
    LET path == ConfigPath(arg)
        f == fs[path]
    IN IF f.state = "ok"
       THEN [obj |-> [config_file |-> path, models |-> load_models(f.data).models,
                      active_model |-> load_models(f.data).active],
             files |-> fs]
       ELSE [obj |-> [config_file |-> path, models |-> <<DefaultModel>>,
                      active_model |-> StoredRef(DefaultId)],
             files |-> [fs EXCEPT ![path] = FileOf(<<DefaultModel>>)]]

\* Variant of new without the guard: every call creates an object.
newUnguarded(inst, objs) == Len(objs) + 1

\* __new__: the index of the object the call returns; a new object is
\* created only while _instance is None.
new(inst, objs) == IF inst = 0 THEN Len(objs) + 1 ELSE inst

\* One call ModelManager(arg) (get_model_manager(arg) is the same call):
\* __new__ returns the guarded instance, after creating and initialising it
\* when there was none, and then, as for every object __new__ returns,
\* __init__(arg) runs on it.
Construct(arg) ==
    /\ Len(holders) < MaxHolders
    /\ LET k == new(cls_instance, objects)
           first == init(arg, files)
           again == init(arg, first.files)
           r == IF k > Len(objects) THEN again ELSE first
       IN /\ cls_instance' = k
          /\ objects' = IF k > Len(objects) THEN Append(objects, r.obj)
                        ELSE [objects EXCEPT ![k] = r.obj]
          /\ files' = r.files
          /\ holders' = Append(holders, [arg |-> arg, obj |-> k])
    /\ UNCHANGED <<mmVars, routerVars, rankVars, selVars, writerVars, clientVars, restVars>>

ConstructModelManager == \E arg \in ConfigArgs : Construct(arg)

\* Registry files found under the other path.
OtherFiles == {FileMissing, FileCorrupt, FileOf(<<>>),
               FileOf(<<[id |-> DefaultId, is_active |-> FALSE]>>)}

\* ---- the LLM client of the strategy pipeline ----------------------------
\* The provider field of the registered models: the default model is a
\* siliconflow model, model 1 a gemini model, any further model is of a
\* provider without a client class ('openai').
ProviderOf(id) ==
    IF id = DefaultId THEN "siliconflow" ELSE IF id = 1 THEN "gemini" ELSE "openai"

\* The provider of get_active_model(), "none" when there is no active model.
ActiveProvider ==
    IF get_active_model.kind = "none" THEN "none" ELSE ProviderOf(get_active_model.id)

\* _create_ai_client: the class of the client built for the active model.
create_ai_client(provider) ==
    IF provider = "none" THEN "siliconflow"
    ELSE IF provider = "siliconflow" THEN "siliconflow"
    ELSE IF provider = "gemini" THEN "gemini"
    ELSE "siliconflow"

\* refresh_ai_client
refresh_ai_client ==
    /\ ai_client' = create_ai_client(ActiveProvider)
    /\ UNCHANGED <<last_call, mmVars, routerVars, rankVars, selVars, writerVars, singletonVars, restVars>>

\* The stages that call the LLM through self.ai_client.
AnalysisStages == {"macro_analysis", "deep_analysis", "intraday_check"}

\* One analysis call of the pipeline: it goes to self.ai_client.
Analyse(stage) ==
    /\ last_call' = [stage |-> stage, provider |-> ai_client, active |-> ActiveProvider]
    /\ UNCHANGED <<ai_client, mmVars, routerVars, rankVars, selVars, writerVars, singletonVars, restVars>>

AnalysisCall == \E stage \in AnalysisStages : Analyse(stage)

\* set_active_model called on the registry the StrategyManager holds.
SwitchActiveModel ==
    /\ \E id \in ModelIds, o \in SaveOutcomes : set_active_model(id, o)
    /\ UNCHANGED <<clientVars, routerVars, rankVars, selVars, writerVars, singletonVars, restVars>>

\* ---- one completion call of an LLM client -------------------------------
\* Retry(total=3, backoff_factor=1, status_forcelist=[429, 500, 502, 503, 504],
\*       allowed_methods=["POST"]) mounted on the session of the SiliconFlow
\* client.  total is the number of retries urllib3 allows after the first
\* attempt.
RetryTotal == 3
status_forcelist == {429, 500, 502, 503, 504}

\* Statuses for which urllib3 honours a Retry-After header
\* (Retry.RETRY_AFTER_STATUS_CODES).
RETRY_AFTER_STATUS_CODES == {413, 429, 503}

\* The answer to one HTTP attempt: a response with a status (and possibly a
\* Retry-After header), a connection error, or a read error (the timeout of
\* 120 s included).
StatusResponse(status, retry_after) ==
    [kind |-> "status", status |-> status, retry_after |-> retry_after]
ConnectError == [kind |-> "connect_error", status |-> 0, retry_after |-> FALSE]
ReadError == [kind |-> "read_error", status |-> 0, retry_after |-> FALSE]

HttpResponses ==
    {StatusResponse(st, FALSE) : st \in {200, 400, 413, 429, 500, 501, 502, 503, 504}}
        \cup {StatusResponse(413, TRUE), StatusResponse(503, TRUE)}
        \cup {ConnectError, ReadError}

\* Variant of is_retry that retries every error status.
is_retryAnyError(total, resp) == resp.status >= 400

\* Retry.is_retry for a POST (an allowed method): the status is in the
\* forcelist, or retries remain and a Retry-After header came with a status
\* that honours it.
is_retry(total, resp) ==
    \/ resp.status \in status_forcelist
    \/ (total # 0 /\ resp.retry_after /\ resp.status \in RETRY_AFTER_STATUS_CODES)

\* Whether the attempt answered by resp is retried: connection and read
\* errors always are (POST is an allowed method), responses as is_retry says.
Retried(total, resp) == resp.kind # "status" \/ is_retry(total, resp)

\* The exception raised when the retries are exhausted on resp.
Exhausted(resp) ==
    IF resp.kind = "connect_error" THEN "ConnectionError"
    ELSE IF resp.kind = "read_error" THEN "Timeout"
    ELSE "RetryError"

\* response.raise_for_status() and the parse of a response that is kept.
raise_for_status(resp) == IF resp.status >= 400 THEN "HTTPError" ELSE "returned"

\* A completion is started on a client: _generate_content or
\* analyze_trading_strategy of SiliconFlowClient (session.post behind the
\* Retry adapter), an analysis method of GeminiClient (generate_content).
Start(client) ==
    /\ llm_pc \in {"idle", "done"}
    /\ llm_pc' = "attempt"
    /\ llm_client' = client
    /\ llm_total' = IF client = "siliconflow" THEN RetryTotal ELSE 0
    /\ llm_history' = <<>>
    /\ llm_result' = "none"
    /\ UNCHANGED <<coreVars, extractVars, pipeVars, cacheVars, calcVars, pcrVars, jobVars, lockVars, raceVars>>

StartCompletion == \E client \in {"siliconflow", "gemini"} : Start(client)

\* One HTTP attempt inside session.post and what urllib3 does with its answer.
Attempt(resp) ==
    /\ llm_pc = "attempt"
    /\ llm_client = "siliconflow"
    /\ llm_history' = Append(llm_history, resp)
    /\ IF Retried(llm_total, resp)
       THEN /\ llm_total' = llm_total - 1
            /\ IF llm_total - 1 < 0
               THEN llm_pc' = "done" /\ llm_result' = Exhausted(resp)
               ELSE llm_pc' = "attempt" /\ llm_result' = llm_result
       ELSE /\ llm_total' = llm_total
            /\ llm_pc' = "done"
            /\ llm_result' = raise_for_status(resp)
    /\ UNCHANGED <<llm_client, coreVars, extractVars, pipeVars, cacheVars, calcVars, pcrVars, jobVars, lockVars, raceVars>>

HttpAttempt == \E resp \in HttpResponses : Attempt(resp)

\* self.model.generate_content(prompt) of the Gemini client: one call, which
\* returns a text or raises; the client sets up no retry.
Generate(ok) ==
    /\ llm_pc = "attempt"
    /\ llm_client = "gemini"
    /\ llm_history' = Append(llm_history, IF ok THEN StatusResponse(200, FALSE) ELSE ReadError)
    /\ llm_pc' = "done"
    /\ llm_result' = IF ok THEN "returned" ELSE "Exception"
    /\ UNCHANGED <<llm_client, llm_total, coreVars, extractVars, pipeVars, cacheVars, calcVars, pcrVars, jobVars, lockVars, raceVars>>

GenerateContent == \E ok \in BOOLEAN : Generate(ok)

\* ---- _extract_json_response ----------------------------------------------
\* (the same function in SiliconFlowClient and in GeminiClient)
\* A response text is a sequence of tokens: the braces, a string literal
\* "s", the colon, a number "1" and a word "w" of prose (white space plays
\* no part).  Objects of these texts have at most one member.
Tokens == {"{", "}", "s", ":", "1", "w"}

\* Longest response text.
MaxTextLen == 5

Texts == UNION {[1 .. n -> Tokens] : n \in 0 .. MaxTextLen}

ParseFail == [ok |-> FALSE, val |-> <<>>, next |-> 0]
ParseOk(val, next) == [ok |-> TRUE, val |-> val, next |-> next]

\* The JSON value that starts at position i of t: a number, a string or an
\* object; next is the position after it.  Parsed values: <<"num">>,
\* <<"str">>, <<"obj">> for {} and <<"obj", v>> for {"s": v}.
RECURSIVE ParseValue(_, _)
ParseValue(t, i) ==
    IF i > Len(t) THEN ParseFail
    ELSE IF t[i] = "1" THEN ParseOk(<<"num">>, i + 1)
    ELSE IF t[i] = "s" THEN ParseOk(<<"str">>, i + 1)
    ELSE IF t[i] = "{"
    THEN IF i + 1 <= Len(t) /\ t[i + 1] = "}" THEN ParseOk(<<"obj">>, i + 2)
         ELSE IF i + 2 <= Len(t) /\ t[i + 1] = "s" /\ t[i + 2] = ":"
         THEN LET v == ParseValue(t, i + 3)
              IN IF v.ok /\ v.next <= Len(t) /\ t[v.next] = "}"
                 THEN ParseOk(<<"obj", v.val>>, v.next + 1)
                 ELSE ParseFail
         ELSE ParseFail
    ELSE ParseFail

\* json.loads(text): the whole text is one JSON value, or JSONDecodeError.
json_loads(t) ==
    LET r == ParseValue(t, 1)
    IN IF r.ok /\ r.next = Len(t) + 1 THEN r ELSE ParseFail

\* response_text.index('{') and response_text.rindex('}'); 0 for ValueError.
index(t, c) ==
    IF \E k \in DOMAIN t : t[k] = c
    THEN CHOOSE k \in DOMAIN t : t[k] = c /\ \A j \in 1 .. (k - 1) : t[j] # c
    ELSE 0
rindex(t, c) ==
    IF \E k \in DOMAIN t : t[k] = c
    THEN CHOOSE k \in DOMAIN t : t[k] = c /\ \A j \in (k + 1) .. Len(t) : t[j] # c
    ELSE 0

Returned(val) == [kind |-> "return", val |-> val]
RaisedError == [kind |-> "raise", val |-> <<>>]

\* response_text[start_idx:end_idx]
JsonStr(t) == SubSeq(t, index(t, "{"), rindex(t, "}"))

\* Variant of extract_json_response without the second attempt.
extract_json_responseNoFallback(t) ==
    IF json_loads(t).ok THEN Returned(json_loads(t).val) ELSE RaisedError

\* _extract_json_response
extract_json_response(t) ==
    IF json_loads(t).ok THEN Returned(json_loads(t).val)
    ELSE IF index(t, "{") = 0 \/ rindex(t, "}") = 0 THEN RaisedError
    ELSE IF json_loads(JsonStr(t)).ok THEN Returned(json_loads(JsonStr(t)).val)
    ELSE RaisedError

\* One call of _extract_json_response on a response text.
Extract(t) ==
    /\ ex_text' = t
    /\ ex_result' = extract_json_response(t)
    /\ UNCHANGED <<coreVars, llmVars, pipeVars, cacheVars, calcVars, pcrVars, jobVars, lockVars, raceVars>>

\* One call is made per run, on any response text of the bounded set.
ExtractJson ==
    /\ ex_result.kind = "none"
    /\ \E t \in Texts : Extract(t)

\* ---- StrategyManager: select_top_5 ----------------------------------------
\* (GuAnalysisSystem/AlphaSentinel/engine/strategy_manager.py)
\* analysis_results is a dict symbol -> strategy in insertion order: a
\* sequence of strategies, the symbol being the position.  SHORT is treated
\* by select_top_5 as LONG is.
Directions == {"LONG", "WAIT"}

\* The (signal_strength, rr_ratio) pairs of the strategies.
Keys == {<<1, 2>>, <<2, 1>>, <<2, 2>>}

Strategies ==
    {[direction |-> d, signal_strength |-> k[1], rr_ratio |-> k[2]] :
        d \in Directions, k \in Keys}

\* Most symbols analysed when select_top_5 is called on its own.
MaxSymbols == 6

\* Most symbols analysed in a run of the pipeline.
MaxScanSymbols == 1

AnalysisResults(n) == UNION {[1 .. k -> Strategies] : k \in 0 .. n}

\* tuple comparison of the sort key (signal_strength, rr_ratio)
KeyGreater(a, b) ==
    \/ a.signal_strength > b.signal_strength
    \/ a.signal_strength = b.signal_strength /\ a.rr_ratio > b.rr_ratio

\* The symbols select_top_5 sorts, with the WAIT strategies kept.
actionable_strategiesKeepWait(res) == DOMAIN res

\* actionable_strategies: the symbols whose direction is not WAIT, or all of
\* them when there is none.
actionable_strategies(res) ==
    LET act == {s \in DOMAIN res : res[s].direction # "WAIT"}
    IN IF act = {} THEN DOMAIN res ELSE act

\* sorted(..., key=..., reverse=True): by decreasing key, symbols of equal
\* key staying in insertion order.
RECURSIVE sorted(_, _)
sorted(res, syms) ==
    IF syms = {} THEN <<>>
    ELSE LET first == CHOOSE s \in syms :
                          \A o \in syms \ {s} :
                              \/ KeyGreater(res[s], res[o])
                              \/ ~KeyGreater(res[o], res[s]) /\ s < o
         IN <<first>> \o sorted(res, syms \ {first})

\* sorted_symbols[:5]
TopCount == 5

select_top_5(res) ==
    LET sorted_symbols == sorted(res, actionable_strategies(res))
    IN SubSeq(sorted_symbols, 1,
              IF Len(sorted_symbols) < TopCount THEN Len(sorted_symbols) ELSE TopCount)

\* A call of select_top_5 on its own, on any analysis results.
SelectTop5(res) ==
    /\ analysis_results' = res
    /\ top_5_symbols' = select_top_5(res)
    /\ t5_called' = TRUE
    /\ UNCHANGED <<invocation, pm_pc, id_pc, run_stages, run_report>>
    /\ UNCHANGED <<coreVars, llmVars, extractVars, cacheVars, calcVars, pcrVars, jobVars, lockVars, raceVars>>

SelectTop5Call ==
    /\ ~t5_called
    /\ \E res \in AnalysisResults(MaxSymbols) : SelectTop5(res)

\* ---- StrategyManager: pre_market_scan, intraday_check and the scheduler ----
Stages == <<"macro_analysis", "market_scan", "filter_symbols", "deep_analysis",
            "select_top_5">>

Jobs == {"macro_analysis", "pre_market_scan", "intraday_check"}

NewInvocation(job) ==
    [job |-> job, running |-> TRUE, failed |-> FALSE, alerted |-> FALSE]

\* Variant of NextStage that filters before it scans.
NextStageFilterFirst(s) ==
    CASE s = "macro_analysis" -> "filter_symbols"
      [] s = "filter_symbols" -> "market_scan"
      [] s = "market_scan" -> "deep_analysis"
      [] s = "deep_analysis" -> "select_top_5"
      [] s = "select_top_5" -> "report"

\* The statement of pre_market_scan that follows the return of stage s.
NextStage(s) ==
    CASE s = "macro_analysis" -> "market_scan"
      [] s = "market_scan" -> "filter_symbols"
      [] s = "filter_symbols" -> "deep_analysis"
      [] s = "deep_analysis" -> "select_top_5"
      [] s = "select_top_5" -> "report"

\* Entry of pre_market_scan: a new run.
EnterPreMarketScan ==
    /\ pm_pc' = "macro_analysis"
    /\ run_stages' = <<>>
    /\ run_report' = FALSE

\* One stage of pre_market_scan, called and ended.  A stage that raises is
\* caught by the except block, which sends the system alert and re-raises.
Stage(s, ok, res) ==
    /\ pm_pc = s
    /\ run_stages' = Append(run_stages, s)
    /\ IF ok
       THEN /\ pm_pc' = NextStage(s)
            /\ analysis_results' = IF s = "deep_analysis" THEN res ELSE analysis_results
            /\ top_5_symbols' = IF s = "select_top_5"
                                THEN select_top_5(analysis_results)
                                ELSE top_5_symbols
            /\ UNCHANGED invocation
       ELSE /\ pm_pc' = "raised"
            /\ invocation' = [invocation EXCEPT !.failed = TRUE, !.alerted = TRUE]
            /\ UNCHANGED <<analysis_results, top_5_symbols>>
    /\ UNCHANGED <<id_pc, run_report, t5_called>>
    /\ UNCHANGED <<coreVars, llmVars, extractVars, cacheVars, calcVars, pcrVars, jobVars, lockVars, raceVars>>

PipelineStage ==
    \E i \in DOMAIN Stages, ok \in BOOLEAN, res \in AnalysisResults(MaxScanSymbols) :
        Stage(Stages[i], ok, res)

\* if top_5: ... self.notifier.send_daily_report(report, chart_paths);
\* return top_5
SendReport ==
    /\ pm_pc = "report"
    /\ run_report' = (top_5_symbols # <<>>)
    /\ pm_pc' = "returned"
    /\ UNCHANGED <<invocation, id_pc, run_stages, analysis_results, top_5_symbols, t5_called>>
    /\ UNCHANGED <<coreVars, llmVars, extractVars, cacheVars, calcVars, pcrVars, jobVars, lockVars, raceVars>>

\* The job macro_analysis (daily, 08:30): its except block logs and re-raises.
MacroAnalysisJob(ok) ==
    /\ ~invocation.running
    /\ pm_pc = "idle"
    /\ invocation' = [job |-> "macro_analysis", running |-> FALSE,
                      failed |-> ~ok, alerted |-> FALSE]
    /\ UNCHANGED <<pm_pc, id_pc, run_stages, run_report, analysis_results,
                   top_5_symbols, t5_called>>
    /\ UNCHANGED <<coreVars, llmVars, extractVars, cacheVars, calcVars, pcrVars, jobVars, lockVars, raceVars>>

FireMacroAnalysis == \E ok \in BOOLEAN : MacroAnalysisJob(ok)

\* The job pre_market_scan (daily, 08:40) starts.
FirePreMarketScan ==
    /\ ~invocation.running
    /\ pm_pc = "idle"
    /\ invocation' = NewInvocation("pre_market_scan")
    /\ EnterPreMarketScan
    /\ UNCHANGED <<id_pc, analysis_results, top_5_symbols, t5_called>>
    /\ UNCHANGED <<coreVars, llmVars, extractVars, cacheVars, calcVars, pcrVars, jobVars, lockVars, raceVars>>

\* The job pre_market_scan ends: it returned, or the scheduler's executor
\* caught what it raised.
EndPreMarketScan ==
    /\ invocation.running
    /\ invocation.job = "pre_market_scan"
    /\ pm_pc \in {"returned", "raised"}
    /\ pm_pc' = "idle"
    /\ invocation' = [invocation EXCEPT !.running = FALSE]
    /\ UNCHANGED <<id_pc, run_stages, run_report, analysis_results, top_5_symbols,
                   t5_called>>
    /\ UNCHANGED <<coreVars, llmVars, extractVars, cacheVars, calcVars, pcrVars, jobVars, lockVars, raceVars>>

\* The job intraday_check (every 15 minutes in market hours) starts: with no
\* top-5 symbols it first calls pre_market_scan.
FireIntradayCheck ==
    /\ ~invocation.running
    /\ pm_pc = "idle"
    /\ invocation' = NewInvocation("intraday_check")
    /\ IF top_5_symbols = <<>>
       THEN /\ id_pc' = "pre_market_scan"
            /\ EnterPreMarketScan
       ELSE /\ id_pc' = "fetch"
            /\ UNCHANGED <<pm_pc, run_stages, run_report>>
    /\ UNCHANGED <<analysis_results, top_5_symbols, t5_called>>
    /\ UNCHANGED <<coreVars, llmVars, extractVars, cacheVars, calcVars, pcrVars, jobVars, lockVars, raceVars>>

\* intraday_check after its call of pre_market_scan: what that call raised
\* leaves intraday_check; with still no top-5 symbols it returns {}.
IntradayAfterScan ==
    /\ id_pc = "pre_market_scan"
    /\ pm_pc \in {"returned", "raised"}
    /\ pm_pc' = "idle"
    /\ IF pm_pc = "raised" \/ top_5_symbols = <<>>
       THEN /\ id_pc' = "idle"
            /\ invocation' = [invocation EXCEPT !.running = FALSE]
       ELSE /\ id_pc' = "fetch"
            /\ UNCHANGED invocation
    /\ UNCHANGED <<run_stages, run_report, analysis_results, top_5_symbols, t5_called>>
    /\ UNCHANGED <<coreVars, llmVars, extractVars, cacheVars, calcVars, pcrVars, jobVars, lockVars, raceVars>>

\* The rest of intraday_check: get_multiple_symbols_data is called outside
\* any try block; the loop over the symbols catches and logs what the
\* analysis of one symbol raises.
IntradayFetch(ok) ==
    /\ id_pc = "fetch"
    /\ id_pc' = "idle"
    /\ invocation' = [invocation EXCEPT !.running = FALSE, !.failed = ~ok]
    /\ UNCHANGED <<pm_pc, run_stages, run_report, analysis_results, top_5_symbols,
                   t5_called>>
    /\ UNCHANGED <<coreVars, llmVars, extractVars, cacheVars, calcVars, pcrVars, jobVars, lockVars, raceVars>>

IntradayData == \E ok \in BOOLEAN : IntradayFetch(ok)

\* ---- DataLoader: the cache of get_futures_data ------------------------------
\* (GuAnalysisSystem/AlphaSentinel/data/data_loader.py)
\* Time is counted in hours from midnight of day 0 and moves in steps of half
\* the staleness threshold.  A blob is <<t>>: the series fetched, and the
\* file written, at hour t.
max_age_hours == 12

HoursPerDay == 24

Step == max_age_hours \div 2

\* Last hour of the clock.
MaxHours == 42

\* strftime("%Y%m%d") of an hour
date_str(t) == t \div HoursPerDay

\* The (symbol, period) pairs asked for.
Series == {"rb_60m", "rb_5m"}

\* _get_cache_path
get_cache_path(sp, day) == <<sp, day>>

CachePaths == {get_cache_path(sp, d) : sp \in Series, d \in 0 .. date_str(MaxHours)}

NoBlob == <<>>

NoCall == [sp |-> "none", api |-> FALSE, ret |-> NoBlob]

\* Variant of _load_from_cache that serves a blob of any age.
load_from_cacheAnyAge(c, sp, t) ==
    LET cache_path == get_cache_path(sp, date_str(t))
    IN IF c[cache_path] # NoBlob THEN c[cache_path] ELSE NoBlob

\* _load_from_cache at hour t: the blob under today's path when the file
\* exists and was modified less than max_age_hours ago, else None.
load_from_cache(c, sp, t) ==
    LET cache_path == get_cache_path(sp, date_str(t))
    IN IF c[cache_path] # NoBlob /\ t - c[cache_path][1] < max_age_hours
       THEN c[cache_path]
       ELSE NoBlob

\* _save_to_cache at hour t
save_to_cache(c, data, sp, t) == [c EXCEPT ![get_cache_path(sp, date_str(t))] = data]

\* get_futures_data(symbol, period); api_ok: the akshare call returns a
\* series rather than raising.
get_futures_data(sp, api_ok) ==
    LET cached_data == load_from_cache(cache, sp, ca_now)
    IN /\ IF cached_data # NoBlob
          THEN /\ ca_last' = [sp |-> sp, api |-> FALSE, ret |-> cached_data]
               /\ UNCHANGED cache
          ELSE IF api_ok
          THEN /\ cache' = save_to_cache(cache, <<ca_now>>, sp, ca_now)
               /\ ca_last' = [sp |-> sp, api |-> TRUE, ret |-> <<ca_now>>]
          ELSE /\ ca_last' = [sp |-> sp, api |-> TRUE, ret |-> NoBlob]
               /\ UNCHANGED cache
       /\ UNCHANGED ca_now
       /\ UNCHANGED <<coreVars, llmVars, extractVars, pipeVars, calcVars, pcrVars, jobVars, lockVars, raceVars>>

GetFuturesData == \E sp \in Series, api_ok \in BOOLEAN : get_futures_data(sp, api_ok)

\* Time passes.
ClockTick ==
    /\ ca_now + Step <= MaxHours
    /\ ca_now' = ca_now + Step
    /\ UNCHANGED <<cache, ca_last>>
    /\ UNCHANGED <<coreVars, llmVars, extractVars, pipeVars, calcVars, pcrVars, jobVars, lockVars, raceVars>>

\* ---- TechnicalCalculator ----------------------------------------------------
\* (GuAnalysisSystem/AlphaSentinel/analysis/technical_calc.py)
\* A bar table is its set of columns and its close column (one value per
\* row).  Numbers computed from the closes are exact fractions <<n, d>> with
\* d > 0; NaN and Inf are the float values of those names.
OHLCV == {"open", "high", "low", "close", "volume"}

\* Most rows of a bar table, the prices of a bar, and the largest window.
MaxBars == 5
MaxPrice == 3
MaxWindow == 3

Closes == UNION {[1 .. n -> 1 .. MaxPrice] : n \in 0 .. MaxBars}

\* pd.DataFrame(): no rows and no columns
NoBars == [cols |-> {}, close |-> <<>>]

BarTables == {[cols |-> OHLCV, close |-> c] : c \in Closes} \cup {NoBars}

NaN == <<"nan">>
Inf == <<"inf">>

\* df[column].diff()
diff(c) == [i \in DOMAIN c |-> IF i = 1 THEN NaN ELSE <<c[i] - c[i - 1], 1>>]

\* Variant of where_positive that keeps the negative changes.
where_positiveUnclipped(delta) ==
    [i \in DOMAIN delta |-> IF delta[i] = NaN THEN 0 ELSE delta[i][1]]

\* delta.where(delta > 0, 0): NaN > 0 is False
where_positive(delta) ==
    [i \in DOMAIN delta |-> IF delta[i] # NaN /\ delta[i][1] > 0 THEN delta[i][1] ELSE 0]

\* -delta.where(delta < 0, 0)
where_negative(delta) ==
    [i \in DOMAIN delta |-> IF delta[i] # NaN /\ delta[i][1] < 0 THEN 0 - delta[i][1] ELSE 0]

RECURSIVE SumRange(_, _, _)
SumRange(x, from, to) == IF from > to THEN 0 ELSE x[to] + SumRange(x, from, to - 1)

\* x.rolling(window=window).mean(): NaN until window rows are there
rolling_mean(x, window) ==
    [i \in DOMAIN x |-> IF i < window THEN NaN ELSE <<SumRange(x, i - window + 1, i), window>>]

\* gain / loss, as floats divide: x / 0 is Inf, 0 / 0 is NaN
divide(a, b) ==
    IF a = NaN \/ b = NaN THEN NaN
    ELSE IF b[1] = 0 THEN (IF a[1] = 0 THEN NaN ELSE Inf)
    ELSE <<a[1] * b[2], b[1] * a[2]>>

\* 100 - (100 / (1 + rs))
rsi_of(rs) ==
    IF rs = NaN THEN NaN
    ELSE IF rs = Inf THEN <<100, 1>>
    ELSE LET one_plus == <<rs[2] + rs[1], rs[2]>>
             quotient == <<100 * one_plus[2], one_plus[1]>>
         IN <<100 * quotient[2] - quotient[1], quotient[2]>>

\* calculate_rsi: the rsi column
calculate_rsi(c, window) ==
    LET delta == diff(c)
        gain == rolling_mean(where_positive(delta), window)
        loss == rolling_mean(where_negative(delta), window)
    IN [i \in DOMAIN c |-> rsi_of(divide(gain[i], loss[i]))]

Calculators == {"calculate_ma", "calculate_atr", "calculate_macd", "calculate_rsi",
                "calculate_bollinger_bands", "calculate_volume_ma", "calculate_all"}

\* The columns a calculator reads.
ReadColumns(calc) ==
    CASE calc = "calculate_atr" -> {"high", "low", "close"}
      [] calc = "calculate_volume_ma" -> {"volume"}
      [] calc = "calculate_all" -> {"high", "low", "close", "volume"}
      [] OTHER -> {"close"}

\* The columns a calculator adds (default names).
DerivedColumns(calc) ==
    CASE calc = "calculate_ma" -> {"ma"}
      [] calc = "calculate_atr" -> {"atr"}
      [] calc = "calculate_macd" -> {"macd_fast", "macd_slow", "macd_line", "macd_signal",
                                     "macd_hist"}
      [] calc = "calculate_rsi" -> {"rsi"}
      [] calc = "calculate_bollinger_bands" -> {"bb_mid", "bb_upper", "bb_lower"}
      [] calc = "calculate_volume_ma" -> {"vol_ma"}
      [] calc = "calculate_all" -> {"ma", "ma50", "ma200", "atr", "macd_fast", "macd_slow",
                                    "macd_line", "macd_signal", "macd_hist", "rsi",
                                    "bb_mid", "bb_upper", "bb_lower", "vol_ma"}

\* One call of a calculator: df[column] raises KeyError for a missing column
\* (logged and re-raised); otherwise the derived columns are assigned, one
\* value per row, and the table is returned.
Calculate(calc, df, window) ==
    /\ tc_df' = df
    /\ tc_call' = <<calc, window>>
    /\ tc_result' =
          IF ~(ReadColumns(calc) \subseteq df.cols)
          THEN [kind |-> "raise", cols |-> {}, rsi |-> <<>>]
          ELSE [kind |-> "return",
                cols |-> df.cols \cup DerivedColumns(calc),
                rsi |-> IF calc \in {"calculate_rsi", "calculate_all"}
                        THEN calculate_rsi(df.close, window)
                        ELSE <<>>]
    /\ UNCHANGED <<coreVars, llmVars, extractVars, pipeVars, cacheVars, pcrVars, jobVars, lockVars, raceVars>>

CalculateIndicator ==
    /\ tc_result.kind = "none"
    /\ \E calc \in Calculators, df \in BarTables, window \in 1 .. MaxWindow :
          Calculate(calc, df, window)

\* ---- get_option_pcr ---------------------------------------------------------
\* (data/data_utils.py and dashboard_v6.py)
\* The option table after the retry loop: the T-quote table of the endpoint,
\* summarised by the sums of its four volume columns, or the demonstration
\* table the loop builds after its last failed attempt (columns type and
\* volume).  A pcr value is a fraction <<n, d>>.
MaxLots == 3

SinaTables ==
    {[format |-> "sina", call_buy |-> cb, call_sell |-> cs, put_buy |-> pb, put_sell |-> ps] :
        cb \in 0 .. MaxLots, cs \in 0 .. MaxLots, pb \in 0 .. MaxLots, ps \in 0 .. MaxLots}

MockTable == [format |-> "typed", call_buy |-> 1000, call_sell |-> 0,
              put_buy |-> 800, put_sell |-> 0]

NoTable == [format |-> "none", call_buy |-> 0, call_sell |-> 0, put_buy |-> 0, put_sell |-> 0]

NoPcr == [pcr |-> <<0, 1>>, type |-> "none"]

\* call_volume and put_volume: buy volume + sell volume, summed
call_volume(t) == t.call_buy + t.call_sell
put_volume(t) == t.put_buy + t.put_sell

\* get_option_pcr of data_utils.py from the table on
get_option_pcr_data_utils(t) ==
    IF put_volume(t) = 0 THEN [pcr |-> <<0, 1>>, type |-> "options"]
    ELSE [pcr |-> <<call_volume(t), put_volume(t)>>, type |-> "options"]

\* get_option_pcr of dashboard_v6.py from the table on; the demonstration
\* table has no T-quote columns, and the except block answers from the
\* open interest of the futures bars when it can (rate: a fraction).
get_option_pcr_dashboard(t, oi) ==
    IF t.format = "typed"
    THEN IF oi THEN [pcr |-> <<0, 1>>, type |-> "open_interest"]
         ELSE [pcr |-> <<1, 1>>, type |-> "default"]
    ELSE IF call_volume(t) > 0
    THEN [pcr |-> <<put_volume(t), call_volume(t)>>, type |-> "options"]
    ELSE [pcr |-> <<1, 1>>, type |-> "options"]

GetPcr(t, oi) ==
    /\ pcr_table' = t
    /\ pcr_result' = [c \in Copies |->
                         IF c = "data_utils" THEN get_option_pcr_data_utils(t)
                         ELSE get_option_pcr_dashboard(t, oi)]
    /\ UNCHANGED <<coreVars, llmVars, extractVars, pipeVars, cacheVars, calcVars, jobVars, lockVars, raceVars>>

GetOptionPcr ==
    /\ pcr_table = NoTable
    /\ \E t \in SinaTables \cup {MockTable}, oi \in BOOLEAN : GetPcr(t, oi)

\* ---- AlphaScheduler: adding jobs ---------------------------------------------
\* (src/engine/scheduler.py)
\* A job is [id, trigger, start_date, end_date]; dates are minutes of the
\* current day (datetime.combine(datetime.now(), t)), <<>> when not given.
\* Before the background scheduler is started, add_job keeps the job in its
\* pending list; once running, add_job(replace_existing=True) replaces the
\* stored job of the same id, and start() stores the pending jobs in order.
Tasks == {"macro_analysis", "pre_market_scan", "intraday_check"}

\* Most add_* calls in a run.
MaxAddCalls == 2

\* time(hour, minute)
time(hour, minute) == hour * 60 + minute

\* id=f"daily_{hour}_{minute}_{task_func.__name__}"
daily_id(hour, minute, task) == [prefix |-> "daily", nums |-> <<hour, minute>>, name |-> task]

\* id=f"interval_{minutes}min_{task_func.__name__}"
interval_id(minutes, task) == [prefix |-> "interval", nums |-> <<minutes>>, name |-> task]

\* jobstore.add_job / update_job with replace_existing=True
real_add_job(store, job) == {j \in store : j.id # job.id} \cup {job}

RECURSIVE real_add_jobs(_, _)
real_add_jobs(store, jobs) ==
    IF jobs = <<>> THEN store
    ELSE real_add_jobs(real_add_job(store, Head(jobs)), Tail(jobs))

\* The scheduler state [pending, store] after scheduler.add_job(job) for each
\* job of the sequence.
add_jobs(jobs) ==
    IF aps_running
    THEN [pending |-> aps_pending, store |-> real_add_jobs(aps_store, jobs)]
    ELSE [pending |-> aps_pending \o jobs, store |-> aps_store]

\* The job add_interval_task adds.
interval_job(task, minutes, start_time, end_time) ==
    [id |-> interval_id(minutes, task), trigger |-> "interval",
     start_date |-> <<start_time>>, end_date |-> <<end_time>>]

\* The three sessions of add_market_hours_task.
Sessions == <<<<time(9, 0), time(11, 30)>>, <<time(13, 30), time(15, 0)>>,
              <<time(21, 0), time(2, 30)>>>>

add_daily_task(task, hour, minute) ==
    LET job == [id |-> daily_id(hour, minute, task), trigger |-> "cron",
                start_date |-> <<>>, end_date |-> <<>>]
        after == add_jobs(<<job>>)
    IN /\ sch_calls < MaxAddCalls
       /\ sch_calls' = sch_calls + 1
       /\ aps_pending' = after.pending
       /\ aps_store' = after.store
       /\ sch_last' = <<"add_daily_task", task, 0>>
       /\ sch_ret' = <<job.id>>
       /\ UNCHANGED aps_running
       /\ UNCHANGED <<coreVars, llmVars, extractVars, pipeVars, cacheVars, calcVars, pcrVars, lockVars, raceVars>>

AddDailyTask == \E task \in Tasks, hm \in {<<8, 30>>, <<8, 40>>} : add_daily_task(task, hm[1], hm[2])

add_market_hours_task(task, minutes) ==
    LET jobs == [k \in DOMAIN Sessions |->
                    interval_job(task, minutes, Sessions[k][1], Sessions[k][2])]
        after == add_jobs(jobs)
    IN /\ sch_calls < MaxAddCalls
       /\ sch_calls' = sch_calls + 1
       /\ aps_pending' = after.pending
       /\ aps_store' = after.store
       /\ sch_last' = <<"add_market_hours_task", task, minutes>>
       /\ sch_ret' = [k \in DOMAIN jobs |-> jobs[k].id]
       /\ UNCHANGED aps_running
       /\ UNCHANGED <<coreVars, llmVars, extractVars, pipeVars, cacheVars, calcVars, pcrVars, lockVars, raceVars>>

AddMarketHoursTask == \E task \in Tasks, minutes \in {15, 30} : add_market_hours_task(task, minutes)

\* self.scheduler.start(): the pending jobs go to the job store.
SchedulerStart ==
    /\ ~aps_running
    /\ aps_running' = TRUE
    /\ aps_store' = real_add_jobs(aps_store, aps_pending)
    /\ aps_pending' = <<>>
    /\ UNCHANGED <<sch_last, sch_ret, sch_calls>>
    /\ UNCHANGED <<coreVars, llmVars, extractVars, pipeVars, cacheVars, calcVars, pcrVars, lockVars, raceVars>>

\* ---- AlphaScheduler.start / stop ----------------------------------------------
\* (src/engine/scheduler.py 13-50)
Threads == {1, 2}

\* Most calls of the underlying scheduler in a run.
MaxUndCalls == 4

\* Variant of CanAcquire for a lock that excludes nobody.
CanAcquireAlways(l) == TRUE

\* with self.lock: the lock is free
CanAcquire(l) == l = 0

\* The underlying call of a method.
UnderlyingOf(op) == IF op = "start" THEN "start" ELSE "shutdown"

\* A thread calls start() or stop().
CallMethod(t, op) ==
    /\ sc_pc[t] = "idle"
    /\ Len(und_log) < MaxUndCalls
    /\ sc_pc' = [sc_pc EXCEPT ![t] = "acquire"]
    /\ sc_op' = [sc_op EXCEPT ![t] = op]
    /\ UNCHANGED <<sc_lock, sc_running, und_running, und_log>>
    /\ UNCHANGED <<coreVars, llmVars, extractVars, pipeVars, cacheVars, calcVars, pcrVars, jobVars, raceVars>>

CallStartOrStop == \E t \in Threads, op \in {"start", "stop"} : CallMethod(t, op)

\* with self.lock:
Acquire(t) ==
    /\ sc_pc[t] = "acquire"
    /\ CanAcquire(sc_lock)
    /\ sc_lock' = t
    /\ sc_pc' = [sc_pc EXCEPT ![t] = "check"]
    /\ UNCHANGED <<sc_op, sc_running, und_running, und_log>>
    /\ UNCHANGED <<coreVars, llmVars, extractVars, pipeVars, cacheVars, calcVars, pcrVars, jobVars, raceVars>>

AcquireLock == \E t \in Threads : Acquire(t)

\* if not self.running: (start) / if self.running: (stop); when the test
\* fails the with block ends and the lock is released.
Check(t) ==
    /\ sc_pc[t] = "check"
    /\ IF (sc_op[t] = "start") = ~sc_running
       THEN /\ sc_pc' = [sc_pc EXCEPT ![t] = "call"]
            /\ UNCHANGED sc_lock
       ELSE /\ sc_pc' = [sc_pc EXCEPT ![t] = "idle"]
            /\ sc_lock' = 0
    /\ UNCHANGED <<sc_op, sc_running, und_running, und_log>>
    /\ UNCHANGED <<coreVars, llmVars, extractVars, pipeVars, cacheVars, calcVars, pcrVars, jobVars, raceVars>>

CheckRunning == \E t \in Threads : Check(t)

\* self.scheduler.start() / self.scheduler.shutdown(): it raises when the
\* scheduler is already in the state asked for, and may raise otherwise; the
\* except block re-raises and the with block releases the lock.
Underlying(t, ok) ==
    /\ sc_pc[t] = "call"
    /\ ok => (und_running = (sc_op[t] = "stop"))
    /\ und_log' = Append(und_log, [name |-> UnderlyingOf(sc_op[t]), ok |-> ok])
    /\ IF ok
       THEN /\ und_running' = (sc_op[t] = "start")
            /\ sc_pc' = [sc_pc EXCEPT ![t] = "set"]
            /\ UNCHANGED sc_lock
       ELSE /\ sc_pc' = [sc_pc EXCEPT ![t] = "idle"]
            /\ sc_lock' = 0
            /\ UNCHANGED und_running
    /\ UNCHANGED <<sc_op, sc_running>>
    /\ UNCHANGED <<coreVars, llmVars, extractVars, pipeVars, cacheVars, calcVars, pcrVars, jobVars, raceVars>>

UnderlyingCall == \E t \in Threads, ok \in BOOLEAN : Underlying(t, ok)

\* self.running = True / False; the with block ends.
SetFlag(t) ==
    /\ sc_pc[t] = "set"
    /\ sc_running' = (sc_op[t] = "start")
    /\ sc_lock' = 0
    /\ sc_pc' = [sc_pc EXCEPT ![t] = "idle"]
    /\ UNCHANGED <<sc_op, und_running, und_log>>
    /\ UNCHANGED <<coreVars, llmVars, extractVars, pipeVars, cacheVars, calcVars, pcrVars, jobVars, raceVars>>

SetRunning == \E t \in Threads : SetFlag(t)

\* ---- Scheduled jobs on one StrategyManager -------------------------------------
\* (src/engine/scheduler.py 187-204; strategy_manager.py 100-398)
\* The jobs setup_scheduler adds; the executor runs each in a thread of its pool.
ScheduledJobs == {"macro_analysis", "pre_market_scan", "intraday_check"}

\* The threads that run pre_market_scan: its own job, and intraday_check,
\* which calls it when no symbol is selected.
ScanThreads == {"pre_market_scan", "intraday_check"}

RaceSymbols == {"rb", "hc"}

\* Variant of CanRun for an executor that runs one job at a time.
CanRunExclusive(pcs, j) == \A k \in ScheduledJobs : pcs[k] = "idle"

\* The executor submits a due job unless an instance of the same job is
\* still running (max_instances is 1); other jobs do not matter.
CanRun(pcs, j) == pcs[j] = "idle"

FirstPc(j) ==
    CASE j = "macro_analysis" -> "macro_job"
      [] j = "pre_market_scan" -> "macro"
      [] j = "intraday_check" -> "test"

\* The orderings of a set of symbols.
Orderings(S) ==
    {l \in [1..Cardinality(S) -> S] : \A i, k \in 1..Cardinality(S) : l[i] = l[k] => i = k}

\* The lists select_top_5 can produce from the analysed symbols: the
\* actionable ones (all of them when none is actionable) in the order of
\* their scores; fewer than five symbols are analysed here.
TopLists(R) ==
    IF R = {} THEN {<<>>}
    ELSE UNION {Orderings(S) : S \in SUBSET R \ {{}}}

\* A trigger fires and the executor starts the job.
FireJob(j) ==
    /\ CanRun(rc_pc, j)
    /\ rc_pc' = [rc_pc EXCEPT ![j] = FirstPc(j)]
    /\ UNCHANGED <<rc_sentiment, rc_top5, rc_latest, rc_todo, rc_results, rc_fetched, rc_iterated, rc_iter, rc_intraday>>
    /\ UNCHANGED <<coreVars, llmVars, extractVars, pipeVars, cacheVars, calcVars, pcrVars, jobVars, lockVars>>

\* The macro_analysis job: it writes self.market_sentiment, or raises.
MacroJobRun(ok) ==
    /\ rc_pc["macro_analysis"] = "macro_job"
    /\ rc_sentiment' = IF ok THEN "macro_analysis" ELSE rc_sentiment
    /\ rc_pc' = [rc_pc EXCEPT !["macro_analysis"] = "idle"]
    /\ UNCHANGED <<rc_top5, rc_latest, rc_todo, rc_results, rc_fetched, rc_iterated, rc_iter, rc_intraday>>
    /\ UNCHANGED <<coreVars, llmVars, extractVars, pipeVars, cacheVars, calcVars, pcrVars, jobVars, lockVars>>

\* pre_market_scan, stage 1: self.macro_analysis(); an exception leaves
\* pre_market_scan and, in intraday_check, the job.
ScanMacro(th, ok) ==
    /\ rc_pc[th] = "macro"
    /\ rc_sentiment' = IF ok THEN th ELSE rc_sentiment
    /\ rc_pc' = [rc_pc EXCEPT ![th] = IF ok THEN "scan" ELSE "idle"]
    /\ UNCHANGED <<rc_top5, rc_latest, rc_todo, rc_results, rc_fetched, rc_iterated, rc_iter, rc_intraday>>
    /\ UNCHANGED <<coreVars, llmVars, extractVars, pipeVars, cacheVars, calcVars, pcrVars, jobVars, lockVars>>

\* stages 2 and 3: market_scan and filter_symbols give filtered_symbols;
\* deep_analysis starts with empty analysis_results.
ScanFilter(th, S) ==
    /\ rc_pc[th] = "scan"
    /\ rc_todo' = [rc_todo EXCEPT ![th] = S]
    /\ rc_results' = [rc_results EXCEPT ![th] = {}]
    /\ rc_pc' = [rc_pc EXCEPT ![th] = "deep"]
    /\ UNCHANGED <<rc_sentiment, rc_top5, rc_latest, rc_fetched, rc_iterated, rc_iter, rc_intraday>>
    /\ UNCHANGED <<coreVars, llmVars, extractVars, pipeVars, cacheVars, calcVars, pcrVars, jobVars, lockVars>>

\* deep_analysis, one symbol: the strategy is stored in analysis_results and
\* in self.latest_analysis, unless the data is incomplete or the analysis
\* raises (continue).
DeepSymbol(th, sym, ok) ==
    /\ rc_pc[th] = "deep"
    /\ sym \in rc_todo[th]
    /\ rc_todo' = [rc_todo EXCEPT ![th] = @ \ {sym}]
    /\ rc_results' = [rc_results EXCEPT ![th] = IF ok THEN @ \cup {sym} ELSE @]
    /\ rc_latest' = IF ok THEN [rc_latest EXCEPT ![sym] = th] ELSE rc_latest
    /\ UNCHANGED <<rc_pc, rc_sentiment, rc_top5, rc_fetched, rc_iterated, rc_iter, rc_intraday>>
    /\ UNCHANGED <<coreVars, llmVars, extractVars, pipeVars, cacheVars, calcVars, pcrVars, jobVars, lockVars>>

\* deep_analysis returns.
DeepReturn(th) ==
    /\ rc_pc[th] = "deep"
    /\ rc_todo[th] = {}
    /\ rc_pc' = [rc_pc EXCEPT ![th] = "select"]
    /\ UNCHANGED <<rc_sentiment, rc_top5, rc_latest, rc_todo, rc_results, rc_fetched, rc_iterated, rc_iter, rc_intraday>>
    /\ UNCHANGED <<coreVars, llmVars, extractVars, pipeVars, cacheVars, calcVars, pcrVars, jobVars, lockVars>>

\* select_top_5: self.top_5_symbols = [...]
SelectAssign(th, l) ==
    /\ rc_pc[th] = "select"
    /\ rc_top5' = l
    /\ rc_pc' = [rc_pc EXCEPT ![th] = "report"]
    /\ UNCHANGED <<rc_sentiment, rc_latest, rc_todo, rc_results, rc_fetched, rc_iterated, rc_iter, rc_intraday>>
    /\ UNCHANGED <<coreVars, llmVars, extractVars, pipeVars, cacheVars, calcVars, pcrVars, jobVars, lockVars>>

\* The daily report is sent and pre_market_scan returns: the job ends, or
\* intraday_check goes on at its second test; a failed send raises. The
\* local analysis_results is gone.
ScanReturn(th, ok) ==
    /\ rc_pc[th] = "report"
    /\ rc_pc' = [rc_pc EXCEPT ![th] = IF ok /\ th = "intraday_check" THEN "retest" ELSE "idle"]
    /\ rc_results' = [rc_results EXCEPT ![th] = {}]
    /\ UNCHANGED <<rc_sentiment, rc_top5, rc_latest, rc_todo, rc_fetched, rc_iterated, rc_iter, rc_intraday>>
    /\ UNCHANGED <<coreVars, llmVars, extractVars, pipeVars, cacheVars, calcVars, pcrVars, jobVars, lockVars>>

ScanThreadStep(th) ==
    \/ \E ok \in BOOLEAN : ScanMacro(th, ok)
    \/ \E S \in SUBSET RaceSymbols : ScanFilter(th, S)
    \/ \E sym \in RaceSymbols, ok \in BOOLEAN : DeepSymbol(th, sym, ok)
    \/ DeepReturn(th)
    \/ \E l \in TopLists(rc_results[th]) : SelectAssign(th, l)
    \/ \E ok \in BOOLEAN : ScanReturn(th, ok)

\* intraday_check, line 338: if not self.top_5_symbols: self.pre_market_scan()
IntradayTest ==
    /\ rc_pc["intraday_check"] = "test"
    /\ rc_pc' = [rc_pc EXCEPT !["intraday_check"] = IF rc_top5 = <<>> THEN "macro" ELSE "retest"]
    /\ UNCHANGED <<rc_sentiment, rc_top5, rc_latest, rc_todo, rc_results, rc_fetched, rc_iterated, rc_iter, rc_intraday>>
    /\ UNCHANGED <<coreVars, llmVars, extractVars, pipeVars, cacheVars, calcVars, pcrVars, jobVars, lockVars>>

\* line 342: if not self.top_5_symbols: return {}
IntradayRetest ==
    /\ rc_pc["intraday_check"] = "retest"
    /\ rc_pc' = [rc_pc EXCEPT !["intraday_check"] = IF rc_top5 = <<>> THEN "idle" ELSE "fetch"]
    /\ UNCHANGED <<rc_sentiment, rc_top5, rc_latest, rc_todo, rc_results, rc_fetched, rc_iterated, rc_iter, rc_intraday>>
    /\ UNCHANGED <<coreVars, llmVars, extractVars, pipeVars, cacheVars, calcVars, pcrVars, jobVars, lockVars>>

\* line 348: get_multiple_symbols_data(self.top_5_symbols, periods)
IntradayFetchData ==
    /\ rc_pc["intraday_check"] = "fetch"
    /\ rc_fetched' = rc_top5
    /\ rc_pc' = [rc_pc EXCEPT !["intraday_check"] = "enter"]
    /\ UNCHANGED <<rc_sentiment, rc_top5, rc_latest, rc_todo, rc_results, rc_iterated, rc_iter, rc_intraday>>
    /\ UNCHANGED <<coreVars, llmVars, extractVars, pipeVars, cacheVars, calcVars, pcrVars, jobVars, lockVars>>

\* lines 351-352: intraday_results = {}; for symbol in self.top_5_symbols:
\* the attribute is read again, and the loop iterates that list.
IntradayEnterLoop ==
    /\ rc_pc["intraday_check"] = "enter"
    /\ rc_iterated' = rc_top5
    /\ rc_iter' = rc_top5
    /\ rc_intraday' = {}
    /\ rc_pc' = [rc_pc EXCEPT !["intraday_check"] = "loop"]
    /\ UNCHANGED <<rc_sentiment, rc_top5, rc_latest, rc_todo, rc_results, rc_fetched>>
    /\ UNCHANGED <<coreVars, llmVars, extractVars, pipeVars, cacheVars, calcVars, pcrVars, jobVars, lockVars>>

InSeq(x, l) == \E i \in DOMAIN l : l[i] = x

\* One turn of the loop: a symbol without data is skipped, as is one whose
\* analysis raises; otherwise the strategy is stored in self.latest_analysis
\* and in intraday_results.
IntradaySymbol(ok) ==
    /\ rc_pc["intraday_check"] = "loop"
    /\ rc_iter # <<>>
    /\ LET sym == Head(rc_iter)
           stored == ok /\ InSeq(sym, rc_fetched)
       IN /\ rc_latest' = IF stored THEN [rc_latest EXCEPT ![sym] = "intraday_check"] ELSE rc_latest
          /\ rc_intraday' = IF stored THEN rc_intraday \cup {sym} ELSE rc_intraday
    /\ rc_iter' = Tail(rc_iter)
    /\ UNCHANGED <<rc_pc, rc_sentiment, rc_top5, rc_todo, rc_results, rc_fetched, rc_iterated>>
    /\ UNCHANGED <<coreVars, llmVars, extractVars, pipeVars, cacheVars, calcVars, pcrVars, jobVars, lockVars>>

\* return intraday_results; the locals are gone.
IntradayReturn ==
    /\ rc_pc["intraday_check"] = "loop"
    /\ rc_iter = <<>>
    /\ rc_pc' = [rc_pc EXCEPT !["intraday_check"] = "idle"]
    /\ rc_fetched' = <<>>
    /\ rc_iterated' = <<>>
    /\ rc_intraday' = {}
    /\ UNCHANGED <<rc_sentiment, rc_top5, rc_latest, rc_todo, rc_results, rc_iter>>
    /\ UNCHANGED <<coreVars, llmVars, extractVars, pipeVars, cacheVars, calcVars, pcrVars, jobVars, lockVars>>

IntradayThreadStep ==
    \/ IntradayTest
    \/ IntradayRetest
    \/ IntradayFetchData
    \/ IntradayEnterLoop
    \/ \E ok \in BOOLEAN : IntradaySymbol(ok)
    \/ IntradayReturn

\* The next step of a running job's thread.
ThreadStep(j) ==
    \/ j = "macro_analysis" /\ \E ok \in BOOLEAN : MacroJobRun(ok)
    \/ j \in ScanThreads /\ ScanThreadStep(j)
    \/ j = "intraday_check" /\ IntradayThreadStep

FireScheduledJob == \E j \in ScheduledJobs : FireJob(j)

RunMacroJob == \E ok \in BOOLEAN : MacroJobRun(ok)

\* A step of pre_market_scan, in its own job or inside intraday_check.
RunPreMarketScan == \E th \in ScanThreads : ScanThreadStep(th)

RunIntradayCheck == IntradayThreadStep

(***************************************************************************)
(* Specifications                                                          *)
(***************************************************************************)

\* Initial state of the registry specification: the state after
\* ModelManager.__init__ (load_models).
InitMM ==
    /\ saveFailures = 0
    /\ mm_ret = TRUE
    /\ mm_op = <<"init", DefaultId>>
    /\ \/ \* no file: the default configuration is created and saved
          /\ models = <<DefaultModel>>
          /\ active_model = StoredRef(DefaultId)
          /\ file = FileOf(<<DefaultModel>>)
       \/ \* the file exists and is loaded
          \E data \in RegistryFiles :
             /\ models = load_models(data).models
             /\ active_model = load_models(data).active
             /\ file = FileOf(data)
    \* the other parts are idle
    /\ r_symbol = <<>>
    /\ r_exchange = [c \in Copies |-> NoExchange]
    /\ r_called = FALSE
    /\ pc = "idle"
    /\ h_copy = "data_utils"
    /\ h_symbol = <<>>
    /\ h_data_type = "unknown"
    /\ now = [weekday |-> 0, minutes |-> 0]
    /\ day_offset = 0
    /\ rank_df = None
    /\ data_date = None
    /\ queried = <<>>
    /\ only_raised = TRUE
    /\ only_empty = TRUE
    /\ ret = ErrorReturn("None")
    /\ sel_copy = "none"
    /\ sel_resp = NoneResponse
    /\ sel_result = Continue
    /\ llm_pc = "idle"
    /\ llm_client = "siliconflow"
    /\ llm_total = 0
    /\ llm_history = <<>>
    /\ llm_result = "none"
    /\ ex_text = <<>>
    /\ ex_result = [kind |-> "none", val |-> <<>>]
    /\ invocation = [job |-> "none", running |-> FALSE, failed |-> FALSE, alerted |-> FALSE]
    /\ pm_pc = "idle"
    /\ id_pc = "idle"
    /\ run_stages = <<>>
    /\ run_report = FALSE
    /\ analysis_results = <<>>
    /\ top_5_symbols = <<>>
    /\ t5_called = FALSE
    /\ rc_pc = [j \in ScheduledJobs |-> "idle"]
    /\ rc_sentiment = "none"
    /\ rc_top5 = <<>>
    /\ rc_latest = [s \in RaceSymbols |-> "none"]
    /\ rc_todo = [j \in ScanThreads |-> {}]
    /\ rc_results = [j \in ScanThreads |-> {}]
    /\ rc_fetched = <<>>
    /\ rc_iterated = <<>>
    /\ rc_iter = <<>>
    /\ rc_intraday = {}
    /\ sc_pc = [t \in Threads |-> "idle"]
    /\ sc_op = [t \in Threads |-> "start"]
    /\ sc_lock = 0
    /\ sc_running = FALSE
    /\ und_running = FALSE
    /\ und_log = <<>>
    /\ aps_running = FALSE
    /\ aps_pending = <<>>
    /\ aps_store = {}
    /\ sch_last = <<"none", "none", 0>>
    /\ sch_ret = <<>>
    /\ sch_calls = 0
    /\ pcr_table = NoTable
    /\ pcr_result = [c \in Copies |-> NoPcr]
    /\ tc_df = NoBars
    /\ tc_call = <<"none", 0>>
    /\ tc_result = [kind |-> "none", cols |-> {}, rsi |-> <<>>]
    /\ ca_now = 0
    /\ cache = [k \in CachePaths |-> NoBlob]
    /\ ca_last = NoCall
    /\ cur = 1
    /\ parked = [models |-> <<>>, active_model |-> NoneRef, mm_ret |-> TRUE,
                 mm_op |-> <<"init", DefaultId>>]
    /\ wrote = {}
    /\ w_ops = [w \in {1, 2} |-> 0]
    /\ last_writer = 0
    /\ cls_instance = 0
    /\ objects = <<>>
    /\ holders = <<>>
    /\ files = [p \in {"default", "other"} |-> FileMissing]
    /\ ai_client = "siliconflow"
    /\ last_call = [stage |-> "none", provider |-> "none", active |-> "none"]

\* Initial state of the specifications of parts 2 and 3: the registry is not
\* constructed, no function has been called.
InitIdle ==
    /\ models = <<>>
    /\ active_model = NoneRef
    /\ file = FileMissing
    /\ mm_ret = TRUE
    /\ mm_op = <<"init", DefaultId>>
    /\ saveFailures = 0
    /\ r_symbol = <<>>
    /\ r_exchange = [c \in Copies |-> NoExchange]
    /\ r_called = FALSE
    /\ pc = "idle"
    /\ h_copy = "data_utils"
    /\ h_symbol = <<>>
    /\ h_data_type = "unknown"
    /\ now = [weekday |-> 0, minutes |-> 0]
    /\ day_offset = 0
    /\ rank_df = None
    /\ data_date = None
    /\ queried = <<>>
    /\ only_raised = TRUE
    /\ only_empty = TRUE
    /\ ret = ErrorReturn("None")
    /\ sel_copy = "none"
    /\ sel_resp = NoneResponse
    /\ sel_result = Continue
    /\ llm_pc = "idle"
    /\ llm_client = "siliconflow"
    /\ llm_total = 0
    /\ llm_history = <<>>
    /\ llm_result = "none"
    /\ ex_text = <<>>
    /\ ex_result = [kind |-> "none", val |-> <<>>]
    /\ invocation = [job |-> "none", running |-> FALSE, failed |-> FALSE, alerted |-> FALSE]
    /\ pm_pc = "idle"
    /\ id_pc = "idle"
    /\ run_stages = <<>>
    /\ run_report = FALSE
    /\ analysis_results = <<>>
    /\ top_5_symbols = <<>>
    /\ t5_called = FALSE
    /\ rc_pc = [j \in ScheduledJobs |-> "idle"]
    /\ rc_sentiment = "none"
    /\ rc_top5 = <<>>
    /\ rc_latest = [s \in RaceSymbols |-> "none"]
    /\ rc_todo = [j \in ScanThreads |-> {}]
    /\ rc_results = [j \in ScanThreads |-> {}]
    /\ rc_fetched = <<>>
    /\ rc_iterated = <<>>
    /\ rc_iter = <<>>
    /\ rc_intraday = {}
    /\ sc_pc = [t \in Threads |-> "idle"]
    /\ sc_op = [t \in Threads |-> "start"]
    /\ sc_lock = 0
    /\ sc_running = FALSE
    /\ und_running = FALSE
    /\ und_log = <<>>
    /\ aps_running = FALSE
    /\ aps_pending = <<>>
    /\ aps_store = {}
    /\ sch_last = <<"none", "none", 0>>
    /\ sch_ret = <<>>
    /\ sch_calls = 0
    /\ pcr_table = NoTable
    /\ pcr_result = [c \in Copies |-> NoPcr]
    /\ tc_df = NoBars
    /\ tc_call = <<"none", 0>>
    /\ tc_result = [kind |-> "none", cols |-> {}, rsi |-> <<>>]
    /\ ca_now = 0
    /\ cache = [k \in CachePaths |-> NoBlob]
    /\ ca_last = NoCall
    /\ cur = 1
    /\ parked = [models |-> <<>>, active_model |-> NoneRef, mm_ret |-> TRUE,
                 mm_op |-> <<"init", DefaultId>>]
    /\ wrote = {}
    /\ w_ops = [w \in {1, 2} |-> 0]
    /\ last_writer = 0
    /\ cls_instance = 0
    /\ objects = <<>>
    /\ holders = <<>>
    /\ files = [p \in {"default", "other"} |-> FileMissing]
    /\ ai_client = "siliconflow"
    /\ last_call = [stage |-> "none", provider |-> "none", active |-> "none"]

AddModel ==
    /\ \E m \in AIModel, o \in SaveOutcomes : add_model(m, o)
    /\ UNCHANGED <<routerVars, rankVars, selVars, extVars>>
UpdateModel ==
    /\ \E id \in ModelIds, m \in AIModel, o \in SaveOutcomes : update_model(id, m, o)
    /\ UNCHANGED <<routerVars, rankVars, selVars, extVars>>
DeleteModel ==
    /\ \E id \in ModelIds, o \in SaveOutcomes : delete_model(id, o)
    /\ UNCHANGED <<routerVars, rankVars, selVars, extVars>>
SetActiveModel ==
    /\ \E id \in ModelIds, o \in SaveOutcomes : set_active_model(id, o)
    /\ UNCHANGED <<routerVars, rankVars, selVars, extVars>>

NextMM == AddModel \/ UpdateModel \/ DeleteModel \/ SetActiveModel

SpecMM == InitMM /\ [][NextMM]_vars

\* Initial state of the two-process specification: both processes have
\* constructed their ModelManager from the same file.
InitWriters ==
    /\ saveFailures = 0
    /\ mm_ret = TRUE
    /\ mm_op = <<"init", DefaultId>>
    /\ \/ /\ models = <<DefaultModel>>
          /\ active_model = StoredRef(DefaultId)
          /\ file = FileOf(<<DefaultModel>>)
       \/ \E data \in RegistryFiles :
             /\ models = load_models(data).models
             /\ active_model = load_models(data).active
             /\ file = FileOf(data)
    /\ cur = 1
    /\ parked = [models |-> models, active_model |-> active_model, mm_ret |-> TRUE,
                 mm_op |-> <<"init", DefaultId>>]
    /\ wrote = {}
    /\ w_ops = [w \in {1, 2} |-> 0]
    /\ last_writer = 0
    /\ cls_instance = 0
    /\ objects = <<>>
    /\ holders = <<>>
    /\ files = [p \in {"default", "other"} |-> FileMissing]
    /\ ai_client = "siliconflow"
    /\ last_call = [stage |-> "none", provider |-> "none", active |-> "none"]
    /\ r_symbol = <<>>
    /\ r_exchange = [c \in Copies |-> NoExchange]
    /\ r_called = FALSE
    /\ pc = "idle"
    /\ h_copy = "data_utils"
    /\ h_symbol = <<>>
    /\ h_data_type = "unknown"
    /\ now = [weekday |-> 0, minutes |-> 0]
    /\ day_offset = 0
    /\ rank_df = None
    /\ data_date = None
    /\ queried = <<>>
    /\ only_raised = TRUE
    /\ only_empty = TRUE
    /\ ret = ErrorReturn("None")
    /\ sel_copy = "none"
    /\ sel_resp = NoneResponse
    /\ sel_result = Continue
    /\ llm_pc = "idle"
    /\ llm_client = "siliconflow"
    /\ llm_total = 0
    /\ llm_history = <<>>
    /\ llm_result = "none"
    /\ ex_text = <<>>
    /\ ex_result = [kind |-> "none", val |-> <<>>]
    /\ invocation = [job |-> "none", running |-> FALSE, failed |-> FALSE, alerted |-> FALSE]
    /\ pm_pc = "idle"
    /\ id_pc = "idle"
    /\ run_stages = <<>>
    /\ run_report = FALSE
    /\ analysis_results = <<>>
    /\ top_5_symbols = <<>>
    /\ t5_called = FALSE
    /\ rc_pc = [j \in ScheduledJobs |-> "idle"]
    /\ rc_sentiment = "none"
    /\ rc_top5 = <<>>
    /\ rc_latest = [s \in RaceSymbols |-> "none"]
    /\ rc_todo = [j \in ScanThreads |-> {}]
    /\ rc_results = [j \in ScanThreads |-> {}]
    /\ rc_fetched = <<>>
    /\ rc_iterated = <<>>
    /\ rc_iter = <<>>
    /\ rc_intraday = {}
    /\ sc_pc = [t \in Threads |-> "idle"]
    /\ sc_op = [t \in Threads |-> "start"]
    /\ sc_lock = 0
    /\ sc_running = FALSE
    /\ und_running = FALSE
    /\ und_log = <<>>
    /\ aps_running = FALSE
    /\ aps_pending = <<>>
    /\ aps_store = {}
    /\ sch_last = <<"none", "none", 0>>
    /\ sch_ret = <<>>
    /\ sch_calls = 0
    /\ pcr_table = NoTable
    /\ pcr_result = [c \in Copies |-> NoPcr]
    /\ tc_df = NoBars
    /\ tc_call = <<"none", 0>>
    /\ tc_result = [kind |-> "none", cols |-> {}, rsi |-> <<>>]
    /\ ca_now = 0
    /\ cache = [k \in CachePaths |-> NoBlob]
    /\ ca_last = NoCall

NextWriters == Switch \/ WriterAdd \/ WriterUpdate \/ WriterDelete \/ WriterSetActive

SpecWriters == InitWriters /\ [][NextWriters]_vars

\* Initial state of the constructor specification: no ModelManager exists;
\* the files are whatever earlier runs left.
InitSingleton ==
    /\ cls_instance = 0
    /\ objects = <<>>
    /\ holders = <<>>
    /\ \E d \in {FileMissing, FileCorrupt} \cup {FileOf(ms) : ms \in RegistryFiles},
          o \in OtherFiles :
          files = [p \in ConfigFiles |-> IF p = "default" THEN d ELSE o]
    /\ ai_client = "siliconflow"
    /\ last_call = [stage |-> "none", provider |-> "none", active |-> "none"]
    /\ models = <<>>
    /\ active_model = NoneRef
    /\ file = FileMissing
    /\ mm_ret = TRUE
    /\ mm_op = <<"init", DefaultId>>
    /\ saveFailures = 0
    /\ cur = 1
    /\ parked = [models |-> <<>>, active_model |-> NoneRef, mm_ret |-> TRUE,
                 mm_op |-> <<"init", DefaultId>>]
    /\ wrote = {}
    /\ w_ops = [w \in {1, 2} |-> 0]
    /\ last_writer = 0
    /\ r_symbol = <<>>
    /\ r_exchange = [c \in Copies |-> NoExchange]
    /\ r_called = FALSE
    /\ pc = "idle"
    /\ h_copy = "data_utils"
    /\ h_symbol = <<>>
    /\ h_data_type = "unknown"
    /\ now = [weekday |-> 0, minutes |-> 0]
    /\ day_offset = 0
    /\ rank_df = None
    /\ data_date = None
    /\ queried = <<>>
    /\ only_raised = TRUE
    /\ only_empty = TRUE
    /\ ret = ErrorReturn("None")
    /\ sel_copy = "none"
    /\ sel_resp = NoneResponse
    /\ sel_result = Continue
    /\ llm_pc = "idle"
    /\ llm_client = "siliconflow"
    /\ llm_total = 0
    /\ llm_history = <<>>
    /\ llm_result = "none"
    /\ ex_text = <<>>
    /\ ex_result = [kind |-> "none", val |-> <<>>]
    /\ invocation = [job |-> "none", running |-> FALSE, failed |-> FALSE, alerted |-> FALSE]
    /\ pm_pc = "idle"
    /\ id_pc = "idle"
    /\ run_stages = <<>>
    /\ run_report = FALSE
    /\ analysis_results = <<>>
    /\ top_5_symbols = <<>>
    /\ t5_called = FALSE
    /\ rc_pc = [j \in ScheduledJobs |-> "idle"]
    /\ rc_sentiment = "none"
    /\ rc_top5 = <<>>
    /\ rc_latest = [s \in RaceSymbols |-> "none"]
    /\ rc_todo = [j \in ScanThreads |-> {}]
    /\ rc_results = [j \in ScanThreads |-> {}]
    /\ rc_fetched = <<>>
    /\ rc_iterated = <<>>
    /\ rc_iter = <<>>
    /\ rc_intraday = {}
    /\ sc_pc = [t \in Threads |-> "idle"]
    /\ sc_op = [t \in Threads |-> "start"]
    /\ sc_lock = 0
    /\ sc_running = FALSE
    /\ und_running = FALSE
    /\ und_log = <<>>
    /\ aps_running = FALSE
    /\ aps_pending = <<>>
    /\ aps_store = {}
    /\ sch_last = <<"none", "none", 0>>
    /\ sch_ret = <<>>
    /\ sch_calls = 0
    /\ pcr_table = NoTable
    /\ pcr_result = [c \in Copies |-> NoPcr]
    /\ tc_df = NoBars
    /\ tc_call = <<"none", 0>>
    /\ tc_result = [kind |-> "none", cols |-> {}, rsi |-> <<>>]
    /\ ca_now = 0
    /\ cache = [k \in CachePaths |-> NoBlob]
    /\ ca_last = NoCall

NextSingleton == ConstructModelManager

SpecSingleton == InitSingleton /\ [][NextSingleton]_vars

\* Initial state of the client specification: StrategyManager.__init__ has
\* taken the registry and built the client for its active model.
InitClient ==
    /\ saveFailures = 0
    /\ mm_ret = TRUE
    /\ mm_op = <<"init", DefaultId>>
    /\ \/ /\ models = <<DefaultModel>>
          /\ active_model = StoredRef(DefaultId)
          /\ file = FileOf(<<DefaultModel>>)
       \/ \E data \in RegistryFiles :
             /\ models = load_models(data).models
             /\ active_model = load_models(data).active
             /\ file = FileOf(data)
    /\ ai_client = create_ai_client(ActiveProvider)
    /\ last_call = [stage |-> "none", provider |-> "none", active |-> "none"]
    /\ cur = 1
    /\ parked = [models |-> <<>>, active_model |-> NoneRef, mm_ret |-> TRUE,
                 mm_op |-> <<"init", DefaultId>>]
    /\ wrote = {}
    /\ w_ops = [w \in {1, 2} |-> 0]
    /\ last_writer = 0
    /\ cls_instance = 0
    /\ objects = <<>>
    /\ holders = <<>>
    /\ files = [p \in {"default", "other"} |-> FileMissing]
    /\ r_symbol = <<>>
    /\ r_exchange = [c \in Copies |-> NoExchange]
    /\ r_called = FALSE
    /\ pc = "idle"
    /\ h_copy = "data_utils"
    /\ h_symbol = <<>>
    /\ h_data_type = "unknown"
    /\ now = [weekday |-> 0, minutes |-> 0]
    /\ day_offset = 0
    /\ rank_df = None
    /\ data_date = None
    /\ queried = <<>>
    /\ only_raised = TRUE
    /\ only_empty = TRUE
    /\ ret = ErrorReturn("None")
    /\ sel_copy = "none"
    /\ sel_resp = NoneResponse
    /\ sel_result = Continue
    /\ llm_pc = "idle"
    /\ llm_client = "siliconflow"
    /\ llm_total = 0
    /\ llm_history = <<>>
    /\ llm_result = "none"
    /\ ex_text = <<>>
    /\ ex_result = [kind |-> "none", val |-> <<>>]
    /\ invocation = [job |-> "none", running |-> FALSE, failed |-> FALSE, alerted |-> FALSE]
    /\ pm_pc = "idle"
    /\ id_pc = "idle"
    /\ run_stages = <<>>
    /\ run_report = FALSE
    /\ analysis_results = <<>>
    /\ top_5_symbols = <<>>
    /\ t5_called = FALSE
    /\ rc_pc = [j \in ScheduledJobs |-> "idle"]
    /\ rc_sentiment = "none"
    /\ rc_top5 = <<>>
    /\ rc_latest = [s \in RaceSymbols |-> "none"]
    /\ rc_todo = [j \in ScanThreads |-> {}]
    /\ rc_results = [j \in ScanThreads |-> {}]
    /\ rc_fetched = <<>>
    /\ rc_iterated = <<>>
    /\ rc_iter = <<>>
    /\ rc_intraday = {}
    /\ sc_pc = [t \in Threads |-> "idle"]
    /\ sc_op = [t \in Threads |-> "start"]
    /\ sc_lock = 0
    /\ sc_running = FALSE
    /\ und_running = FALSE
    /\ und_log = <<>>
    /\ aps_running = FALSE
    /\ aps_pending = <<>>
    /\ aps_store = {}
    /\ sch_last = <<"none", "none", 0>>
    /\ sch_ret = <<>>
    /\ sch_calls = 0
    /\ pcr_table = NoTable
    /\ pcr_result = [c \in Copies |-> NoPcr]
    /\ tc_df = NoBars
    /\ tc_call = <<"none", 0>>
    /\ tc_result = [kind |-> "none", cols |-> {}, rsi |-> <<>>]
    /\ ca_now = 0
    /\ cache = [k \in CachePaths |-> NoBlob]
    /\ ca_last = NoCall

NextClient == SwitchActiveModel \/ refresh_ai_client \/ AnalysisCall

SpecClient == InitClient /\ [][NextClient]_vars

NextLLM == StartCompletion \/ HttpAttempt \/ GenerateContent

SpecLLM == InitIdle /\ [][NextLLM]_vars

NextExtract == ExtractJson

SpecExtract == InitIdle /\ [][NextExtract]_vars

NextTop5 == SelectTop5Call

SpecTop5 == InitIdle /\ [][NextTop5]_vars

NextPipeline ==
    \/ FireMacroAnalysis
    \/ FirePreMarketScan
    \/ PipelineStage
    \/ SendReport
    \/ EndPreMarketScan
    \/ FireIntradayCheck
    \/ IntradayAfterScan
    \/ IntradayData

SpecPipeline == InitIdle /\ [][NextPipeline]_vars

NextCache == GetFuturesData \/ ClockTick

SpecCache == InitIdle /\ [][NextCache]_vars

NextCalc == CalculateIndicator

SpecCalc == InitIdle /\ [][NextCalc]_vars

NextPcr == GetOptionPcr

SpecPcr == InitIdle /\ [][NextPcr]_vars

NextJobs == AddDailyTask \/ AddMarketHoursTask \/ SchedulerStart

SpecJobs == InitIdle /\ [][NextJobs]_vars

NextStartStop == CallStartOrStop \/ AcquireLock \/ CheckRunning \/ UnderlyingCall \/ SetRunning

SpecStartStop == InitIdle /\ [][NextStartStop]_vars

NextRace == FireScheduledJob \/ RunMacroJob \/ RunPreMarketScan \/ RunIntradayCheck

SpecRace == InitIdle /\ [][NextRace]_vars

NextRouter == RouteSymbol

SpecRouter == InitIdle /\ [][NextRouter]_vars

NextRank == CallFetcher \/ SkipWeekend \/ QueryDay \/ LoopExit \/ Finish

SpecRank == InitIdle /\ [][NextRank]_vars

NextSelect == SelectDay

SpecSelect == InitIdle /\ [][NextSelect]_vars

(***************************************************************************)
(* Claims                                                                  *)
(***************************************************************************)

\* C1: after any sequence of add_model / update_model / delete_model /
\* set_active_model calls, at most one stored model has is_active = true.
\* (Violated: add_model stores a model passed with is_active = true next to
\* the model that is already active.)
C1_AtMostOneActive == ActiveCount(models) <= 1

\* The letter code of a symbol as the claim reads it: the characters before
\* the first digit, compared with the table keys as they are written.
LetterCode(symbol) == SubSeq(symbol, 1, FirstDigit(symbol) - 1)

\* The exchange the routing rule of C9 prescribes: the entry of the first of
\* full letter code, first two letters, first letter that is a table key.
PrescribedExchange(symbol) ==
    LET code == LetterCode(symbol)
    IN IF code \in MapKeys THEN MapGet(code)
       ELSE IF Len(code) >= 2 /\ Prefix(code, 2) \in MapKeys THEN MapGet(Prefix(code, 2))
       ELSE IF Len(code) >= 1 /\ Prefix(code, 1) \in MapKeys THEN MapGet(Prefix(code, 1))
       ELSE NoExchange

\* C9: the router used by each copy of the fetcher returns the table entry of
\* the first match among full letter code, first two letters, first letter,
\* and "unrecognized" when none is a key (so rb2505 -> SHFE, m2505 -> DCE,
\* TA2505 -> CZCE, T2505 -> CFFEX).
C9_RouterFollowsTable ==
    r_called => \A c \in Copies : r_exchange[c] = PrescribedExchange(r_symbol)

\* ---- claims about get_holding_rank_data ----------------------------------

\* Day offsets of the 30-day window that fall on a weekday.
WindowWeekdays ==
    {d \in 0 .. (max_days - 1) : TargetWeekday(now.weekday, d) \notin {Saturday, Sunday}}

Last(q) == q[Len(q)]

\* C2: get_holding_rank_data never returns a non-empty table together with a
\* non-null error message.
C2_TableXorError ==
    pc = "done" => ~(ret.err # "None" /\ (ret.df.rows > 0 \/ ret.df.cols # <<>>))

\* A call that fetched a non-empty table and then failed on its columns.
C2_Witness ==
    /\ pc = "done"
    /\ ret.err = "missing_long_columns"
    /\ rank_df # None
    /\ rank_df[1].rows > 0
    /\ ret.df = EmptyDF

\* C3: one call queries the endpoint for at most 30 distinct calendar days
\* and never for a Saturday or Sunday.
C3_WalkBounded ==
    /\ Cardinality(SeqRange(queried)) <= 30
    /\ \A i \in DOMAIN queried :
          /\ queried[i] \in 0 .. 29
          /\ TargetWeekday(now.weekday, queried[i]) \notin {Saturday, Sunday}

\* A walk that went through the whole window, weekends included.
C3_Witness ==
    /\ pc = "done"
    /\ Len(queried) >= 21
    /\ day_offset = max_days

\* C4: when the call is made before 16:30, today (offset 0) is never
\* queried, in the data_utils copy as in the dashboard copy.
\* (Violated by the data_utils copy, whose walk always starts at offset 0.)
C4_TodaySkippedBeforeCutoff ==
    (pc # "idle" /\ now.minutes < UpdateTime) => \A i \in DOMAIN queried : queried[i] # 0

\* C5: the days are queried in strictly decreasing date order (increasing
\* offset); once a day is accepted no further query is issued; on success
\* the returned date is that day, the last (and only accepted) day queried.
C5_Order ==
    /\ \A i, j \in DOMAIN queried : i < j => queried[i] < queried[j]
    /\ data_date # None => (queried # <<>> /\ data_date[1] = Last(queried))
    /\ (pc = "done" /\ ret.err = "None") => (data_date # None /\ ret.date = data_date)

C5_NewestAcceptedWins ==
    /\ []C5_Order
    /\ [][data_date # None => (queried' = queried /\ data_date' = data_date)]_vars

\* A successful call whose accepted day was preceded by rejected days.
C5_Witness ==
    /\ pc = "done"
    /\ ret.err = "None"
    /\ Len(queried) >= 3
    /\ ret.date = Some(Last(queried))

\* C6: an empty or missing response of a day (including an empty table for
\* the requested or substitute contract) never ends the search: a "no data"
\* result is returned only after every weekday of the window from the first
\* queried day on has been tried.
\* (Violated by the data_utils copy, which accepts an empty table and stops.)
C6_NoDataOnlyAfterFullWalk ==
    (pc = "done" /\ ret.err = "no_data") =>
        /\ queried # <<>>
        /\ \A d \in WindowWeekdays : d >= queried[1] => d \in SeqRange(queried)

\* C7: a call that returns no error returns a table with exactly the four
\* unified columns, in order, and at most 20 rows, whatever the data type.
C7_UnifiedSchema ==
    (pc = "done" /\ ret.err = "None") =>
        /\ ret.df.cols = <<"mingci", "huiyuan_jiancheng", "shuzhi", "zengjian">>
        /\ ret.df.rows <= 20

\* A successful call on a table of more than 20 rows.
C7_Witness ==
    /\ pc = "done"
    /\ ret.err = "None"
    /\ h_data_type = "kongdan_chicang"
    /\ rank_df # None
    /\ rank_df[1].rows > 20
    /\ ret.df.rows = 20

\* C8: no exception escapes the call; a day whose request raises does not
\* end the walk; and when every candidate day fails or is empty the call
\* returns (empty table, no date, "no data").
C8_NoEscape ==
    /\ pc # "escaped"
    /\ (pc = "finish" /\ only_raised) => day_offset >= max_days
    /\ (pc = "done" /\ queried # <<>> /\ only_empty) =>
          (ret.df = EmptyDF /\ ret.date = None /\ ret.err = "no_data")

\* A call all of whose requests raised, over the whole window.
C8_Witness ==
    /\ pc = "done"
    /\ only_raised
    /\ Len(queried) >= 20
    /\ ret.err = "no_data"

\* ---- claims about one iteration of the loop -------------------------------

\* C10 as stated: the rows used are those of the requested contract when the
\* response contains it and otherwise those of the first available contract.
\* (Violated by the dashboard copy, which skips other contracts with fewer
\* than 5 rows and may use the second one.)
C10_OwnElseFirst ==
    (sel_copy # "none" /\ sel_result.kind = "accept") =>
        /\ sel_resp.own # None => (sel_result.contract = 0 /\ sel_result.df = sel_resp.own)
        /\ sel_resp.own = None =>
              (sel_result.contract = 1 /\ sel_result.df = Some(sel_resp.others[1]))

\* A table the dashboard copy takes: it has columns and at least 5 rows.
C10_Usable(t) == t.rows >= 5 /\ t.cols # {}

\* C10 amended: rows are used only from the requested contract when the
\* response contains it; otherwise the data_utils copy uses the first
\* available contract and the dashboard copy the first available contract
\* whose table is non-empty with at least 5 rows (none: the day is skipped).
C10_OwnElseFirstUsable ==
    (sel_copy # "none" /\ sel_resp.kind = "dict") =>
        /\ sel_result.kind \in {"accept", "continue"}
        /\ sel_copy = "data_utils" => sel_result.kind = "accept"
        /\ (sel_result.kind = "accept" /\ sel_resp.own # None) =>
              (sel_result.contract = 0 /\ sel_result.df = sel_resp.own)
        /\ (sel_result.kind = "accept" /\ sel_resp.own = None) =>
              /\ sel_result.contract \in DOMAIN sel_resp.others
              /\ sel_result.df = Some(sel_resp.others[sel_result.contract])
              /\ sel_copy = "data_utils" => sel_result.contract = 1
              /\ sel_copy = "dashboard" =>
                    /\ C10_Usable(sel_resp.others[sel_result.contract])
                    /\ \A j \in 1 .. (sel_result.contract - 1) : ~C10_Usable(sel_resp.others[j])
        /\ (sel_copy = "dashboard" /\ sel_resp.own = None
              /\ \E k \in DOMAIN sel_resp.others : C10_Usable(sel_resp.others[k])) =>
              sel_result.kind = "accept"

\* The dashboard copy passes over a first contract of 4 rows and uses the second.
C10_Witness ==
    /\ sel_copy = "dashboard"
    /\ sel_resp.kind = "dict"
    /\ sel_resp.own = None
    /\ Len(sel_resp.others) = 2
    /\ sel_resp.others[1].rows = 4
    /\ sel_result.kind = "accept"
    /\ sel_result.contract = 2

\* ---- claims about the dashboard copy -------------------------------------

\* C11: the table the dashboard copy of get_holding_rank_data accepts for a
\* day has at least 5 rows, and when the call returns without error the date
\* is not null and the returned table has at least 5 rows.
C11_DashboardMinRows ==
    h_copy = "dashboard" =>
        /\ rank_df # None => rank_df[1].rows >= 5
        /\ (pc = "done" /\ ret.err = "None") => (ret.date # None /\ ret.df.rows >= 5)

\* A successful dashboard call on a table of exactly 5 rows, accepted after
\* earlier days were passed over.
C11_Witness ==
    /\ h_copy = "dashboard"
    /\ pc = "done"
    /\ ret.err = "None"
    /\ ret.df.rows = 5
    /\ ret.date # None
    /\ Len(queried) >= 2

\* ---- claims about the registry file ----------------------------------------

\* C12: after an add_model, update_model, delete_model or set_active_model
\* call that returned True, the registry file holds exactly the in-memory
\* registry: the same models in the same order, each with its fields,
\* is_active included.
C12_FileIsRegistry ==
    (mm_op[1] # "init" /\ mm_ret) =>
        /\ file.state = "ok"
        /\ Len(file.data) = Len(models)
        /\ \A i \in DOMAIN models :
              /\ file.data[i].id = models[i].id
              /\ file.data[i].is_active = models[i].is_active

\* A successful set_active_model on a registry of two models after an
\* earlier write had failed.
C12_Witness ==
    /\ mm_op[1] = "set_active_model"
    /\ mm_ret
    /\ saveFailures >= 1
    /\ Len(models) = 2
    /\ file.state = "ok"

\* C13: when two processes that loaded the same file have each performed a
\* mutating operation, the file equals the in-memory registry of the process
\* that wrote last (the change of the other is lost), and the file contains
\* at most one active model.
\* (Violated: a process that adds a model passed with is_active = true
\* writes a file with two active models.)
C13_LastWriteWins ==
    (wrote = Writers /\ file.state = "ok") =>
        /\ (last_writer = cur /\ mm_ret) => file = FileOf(models)
        /\ (last_writer = 3 - cur /\ parked.mm_ret) => file = FileOf(parked.models)
        /\ ActiveCount(file.data) <= 1

\* ---- claims about the constructor guard ------------------------------------

\* C14: every call ModelManager(config_file) / get_model_manager(config_file)
\* of one process returns the same single object, whatever argument is
\* passed, so every holder reads the same registry and the same active model.
C14_SingleInstance ==
    /\ Len(objects) <= 1
    /\ \A i, j \in DOMAIN holders :
          /\ holders[i].obj = cls_instance
          /\ holders[i].obj = holders[j].obj
          /\ objects[holders[i].obj].models = objects[holders[j].obj].models
          /\ objects[holders[i].obj].active_model = objects[holders[j].obj].active_model

\* Two calls with different paths whose files hold different registries.
C14_Witness ==
    /\ Len(holders) >= 2
    /\ ConfigPath(holders[1].arg) # ConfigPath(holders[2].arg)
    /\ files["default"] # files["other"]
    /\ holders[1].obj = holders[2].obj

\* ---- claims about the LLM client of the pipeline ---------------------------

\* C15: every analysis call of the pipeline (macro_analysis, deep_analysis,
\* intraday_check) goes to the provider of the model that is active in the
\* registry at the time of the call, also after set_active_model switched
\* to a model of another provider.
\* (Violated: the client is built in __init__ and replaced only by
\* refresh_ai_client, which set_active_model does not call.)
C15_ClientFollowsActive ==
    (last_call.stage # "none" /\ last_call.active \in {"siliconflow", "gemini"}) =>
        last_call.provider = last_call.active

\* ---- claims about the LLM clients ------------------------------------------

\* C16 as stated: one completion call makes at most 3 HTTP attempts, and an
\* attempt is followed by another only when it was answered with status 429
\* or 5xx; this for both clients.
\* (Violated: total=3 allows 3 retries after the first attempt, and
\* connection and read errors are retried too.)
C16_AtMost3Attempts ==
    /\ Len(llm_history) <= 3
    /\ \A i \in 1 .. (Len(llm_history) - 1) :
          /\ llm_history[i].kind = "status"
          /\ (llm_history[i].status = 429 \/ llm_history[i].status \in 500 .. 599)

\* C16 amended: a completion call of the SiliconFlow client makes at most 4
\* HTTP attempts (the first and 3 retries); an attempt is followed by another
\* only when it ended in a connection or read error or was answered with
\* status 429, 500, 502, 503 or 504, or with 413 and a Retry-After header;
\* any other response ends the call at once (its error status is raised).
\* A completion call of the Gemini client is a single generate_content call.
C16_BoundedRetries ==
    /\ llm_client = "siliconflow" =>
          /\ Len(llm_history) <= 4
          /\ \A i \in 1 .. (Len(llm_history) - 1) :
                \/ llm_history[i].kind \in {"connect_error", "read_error"}
                \/ llm_history[i].status \in {429, 500, 502, 503, 504}
                \/ (llm_history[i].status = 413 /\ llm_history[i].retry_after)
          /\ (llm_pc = "done" /\ llm_history[Len(llm_history)].kind = "status"
                /\ llm_history[Len(llm_history)].status \in {400, 501}) =>
                llm_result = "HTTPError"
          /\ (llm_pc = "done" /\ llm_result = "returned") =>
                llm_history[Len(llm_history)].status = 200
    /\ llm_client = "gemini" => Len(llm_history) <= 1

\* A call that used all four attempts: a connection error, two 503 and a
\* 429, after which the retries are exhausted.
C16_Witness ==
    /\ llm_pc = "done"
    /\ llm_client = "siliconflow"
    /\ Len(llm_history) = 4
    /\ llm_history[1].kind = "connect_error"
    /\ llm_history[2].status = 503
    /\ llm_history[4].status = 429
    /\ llm_result = "RetryError"

\* The text q is one JSON object.
IsObjectText(q) == json_loads(q).ok /\ json_loads(q).val[1] = "obj"

\* No part of q is a JSON object.
NoObjectIn(q) ==
    \A i, j \in DOMAIN q : i <= j => ~IsObjectText(SubSeq(q, i, j))

\* The splits of the text into prose, one JSON object, prose: the object is
\* ex_text[i .. j] and the text around it holds no other object.
Embeddings ==
    {ij \in (DOMAIN ex_text) \X (DOMAIN ex_text) :
        /\ ij[1] <= ij[2]
        /\ IsObjectText(SubSeq(ex_text, ij[1], ij[2]))
        /\ ~IsObjectText(ex_text)
        /\ NoObjectIn(SubSeq(ex_text, 1, ij[1] - 1))
        /\ NoObjectIn(SubSeq(ex_text, ij[2] + 1, Len(ex_text)))}

\* The call returned a value that no part of the text parses to.
C17_Fallback ==
    /\ ex_result.kind = "return"
    /\ \A i, j \in DOMAIN ex_text :
          ~(json_loads(SubSeq(ex_text, i, j)).ok
              /\ json_loads(SubSeq(ex_text, i, j)).val = ex_result.val)

\* C17 as stated: _extract_json_response returns the parsed object when the
\* whole text is a JSON object and when one JSON object is embedded in
\* surrounding prose, and raises, returning no fallback value, otherwise.
\* (Violated: with a brace in the prose the text from the first '{' to the
\* last '}' is not the object, and the call raises.)
C17_ExtractsEmbedded ==
    ex_result.kind # "none" =>
        /\ IsObjectText(ex_text) => ex_result = Returned(json_loads(ex_text).val)
        /\ \A ij \in Embeddings :
              ex_result = Returned(json_loads(SubSeq(ex_text, ij[1], ij[2])).val)
        /\ ~C17_Fallback

\* C17 amended: the parsed object is returned when the whole text is a JSON
\* object and when one JSON object is embedded in text that has no '{'
\* before the object and no '}' after it; when neither the whole text nor the
\* text from the first '{' to the last '}' parses, the call raises, and it
\* never returns a value that is not parsed from the text.
C17_ExtractsBetweenBraces ==
    ex_result.kind # "none" =>
        /\ IsObjectText(ex_text) => ex_result = Returned(json_loads(ex_text).val)
        /\ \A i, j \in DOMAIN ex_text :
              (/\ i <= j
               /\ \A k \in 1 .. (i - 1) : ex_text[k] # "{"
               /\ \A k \in (j + 1) .. Len(ex_text) : ex_text[k] # "}"
               /\ IsObjectText(SubSeq(ex_text, i, j))) =>
                  ex_result = Returned(json_loads(SubSeq(ex_text, i, j)).val)
        /\ (/\ ~json_loads(ex_text).ok
            /\ \/ index(ex_text, "{") = 0
               \/ rindex(ex_text, "}") = 0
               \/ ~json_loads(JsonStr(ex_text)).ok) =>
              ex_result.kind = "raise"
        /\ ~C17_Fallback

\* The object {} between two words of prose is returned.
C17_Witness ==
    /\ ex_text = <<"w", "{", "}", "w">>
    /\ ex_result = Returned(<<"obj">>)

\* The run of pre_market_scan started the stages of a prefix of Stages.
IsPrefix(a, b) == Len(a) <= Len(b) /\ a = SubSeq(b, 1, Len(a))

\* C18: in every run of pre_market_scan the stages execute in the order macro
\* analysis, market scan, filter, deep analysis, top-5 selection, each at
\* most once and each after the previous one has returned; the daily report
\* is sent only after the top-5 selection and only when the top-5 list is
\* non-empty.
C18_StageOrder ==
    /\ IsPrefix(run_stages, Stages)
    /\ pm_pc \in {"market_scan", "filter_symbols", "deep_analysis", "select_top_5"} =>
          \E i \in DOMAIN Stages : pm_pc = Stages[i] /\ Len(run_stages) = i - 1
    /\ run_report => /\ run_stages = Stages
                     /\ pm_pc \in {"returned", "idle"}
                     /\ top_5_symbols # <<>>

\* A run went through the five stages and sent the daily report.
C18_Witness ==
    /\ run_stages = Stages
    /\ run_report
    /\ pm_pc = "returned"

\* C19: when a pipeline stage fails inside a scheduled invocation, the failure
\* is caught and a system alert is sent through the notifier, and later
\* scheduled invocations still run.
C19_FailureAlerted ==
    /\ invocation.failed => invocation.alerted
    /\ (~invocation.running /\ pm_pc = "idle") => ENABLED FirePreMarketScan

\* The symbols with these strategies that select_top_5 chooses from.
Candidates ==
    IF \A s \in DOMAIN analysis_results : analysis_results[s].direction = "WAIT"
    THEN DOMAIN analysis_results
    ELSE {s \in DOMAIN analysis_results : analysis_results[s].direction # "WAIT"}

\* C20: select_top_5 returns and stores at most five distinct symbols of the
\* analysis results, by non-increasing (signal_strength, rr_ratio), no
\* unselected candidate ranking above a selected one; WAIT strategies are
\* candidates only when every analysed strategy is WAIT.
C20_Top5 ==
    t5_called =>
        /\ Len(top_5_symbols) <= 5
        /\ \A i \in DOMAIN top_5_symbols : top_5_symbols[i] \in Candidates
        /\ \A i, j \in DOMAIN top_5_symbols : i # j => top_5_symbols[i] # top_5_symbols[j]
        /\ \A i, j \in DOMAIN top_5_symbols :
              i < j => ~KeyGreater(analysis_results[top_5_symbols[j]],
                                   analysis_results[top_5_symbols[i]])
        /\ \A c \in Candidates, i \in DOMAIN top_5_symbols :
              (\A k \in DOMAIN top_5_symbols : top_5_symbols[k] # c) =>
                  ~KeyGreater(analysis_results[c], analysis_results[top_5_symbols[i]])

\* Six symbols were analysed, one of them WAIT and stronger than the others:
\* the five others are selected.
C20_Witness ==
    /\ t5_called
    /\ Len(analysis_results) = 6
    /\ analysis_results[1].direction = "WAIT"
    /\ analysis_results[1].signal_strength = 2
    /\ \A s \in 2 .. 6 : /\ analysis_results[s].direction = "LONG"
                         /\ analysis_results[s].signal_strength = 1
    /\ Len(top_5_symbols) = 5

\* C24: when delete_model removes the active model and another model remains,
\* one of the remaining models becomes active (flagged is_active and returned
\* by get_active_model), whatever the position of the deleted model.
C24_DeleteReElects ==
    [][\A id \in ModelIds :
          (/\ mm_op' = <<"delete_model", id>>
           /\ id \in Ids(models)
           /\ id \notin Ids(models')
           /\ Lookup(models, id).is_active
           /\ Len(models) > 1) =>
              /\ get_active_model'.kind = "stored"
              /\ get_active_model'.is_active]_vars

\* C27: when add_model, update_model, delete_model or set_active_model returns
\* False, the in-memory registry and the active model are as before the call.
C27_FalseLeavesMemory ==
    [][~mm_ret' => (models' = models /\ active_model' = active_model)]_vars

\* C28: get_active_model() returns None or the model stored in the registry
\* under its id with is_active true, and None only when no stored model is
\* flagged active (so never a replaced model that is no longer stored).
C28_ActiveIsStored ==
    /\ get_active_model.kind = "none" \/
          (get_active_model.kind = "stored" /\ get_active_model.is_active)
    /\ get_active_model.kind = "none" => ActiveCount(models) = 0

\* Some blob of the series sp, under the path of any day, was written less
\* than 12 hours ago.
FreshAnyDay(sp) ==
    \E d \in 0 .. date_str(MaxHours) :
        /\ cache[<<sp, d>>] # <<>>
        /\ ca_now - cache[<<sp, d>>][1] < 12

\* The blob of the series sp under the path of the current day exists and was
\* written less than 12 hours ago.
FreshToday(sp) ==
    /\ cache[<<sp, ca_now \div 24>>] # <<>>
    /\ ca_now - cache[<<sp, ca_now \div 24>>][1] < 12

\* C21 as stated: get_futures_data serves the cached blob of a (symbol,
\* period) without calling the API exactly when a blob for it written less
\* than 12 hours ago exists, and otherwise queries the API and stores the
\* result under (symbol, period, current day); a fetch that fails returns
\* None and leaves the cache unchanged.
\* (Violated: a blob written the evening before is under another day's path.)
C21_ServedWhenFresh ==
    [][ca_now' = ca_now =>
          LET sp == ca_last'.sp
          IN /\ ca_last'.api = ~FreshAnyDay(sp)
             /\ FreshAnyDay(sp) =>
                   /\ \E d \in 0 .. date_str(MaxHours) : ca_last'.ret = cache[<<sp, d>>]
                   /\ ca_last'.ret # <<>>
                   /\ cache' = cache
             /\ (ca_last'.api /\ ca_last'.ret # <<>>) =>
                   /\ ca_last'.ret = <<ca_now>>
                   /\ cache' = [cache EXCEPT ![<<sp, ca_now \div 24>>] = <<ca_now>>]
             /\ ca_last'.ret = <<>> => cache' = cache]_vars

\* C21 amended: the blob is served without calling the API exactly when a
\* blob for (symbol, period, current day) written less than 12 hours ago
\* exists; otherwise the API is queried and the result stored under (symbol,
\* period, current day); a fetch that fails returns None and leaves the
\* cache unchanged.
C21_ServedWhenFreshToday ==
    [][ca_now' = ca_now =>
          LET sp == ca_last'.sp
          IN /\ ca_last'.api = ~FreshToday(sp)
             /\ FreshToday(sp) =>
                   /\ ca_last'.ret = cache[<<sp, ca_now \div 24>>]
                   /\ cache' = cache
             /\ (ca_last'.api /\ ca_last'.ret # <<>>) =>
                   /\ ca_last'.ret = <<ca_now>>
                   /\ cache' = [cache EXCEPT ![<<sp, ca_now \div 24>>] = <<ca_now>>]
             /\ ca_last'.ret = <<>> => cache' = cache]_vars

\* On day 1 a call was served the blob written that day, while the blob of
\* day 0 is still in the cache.
C21_Witness ==
    /\ ca_last = [sp |-> "rb_60m", api |-> FALSE, ret |-> <<24>>]
    /\ cache[<<"rb_60m", 0>>] # <<>>
    /\ ca_now = 30

\* The rsi value at row i is defined.
RsiDefined(i) == tc_result.rsi[i] # <<"nan">>

\* The window of rows ending at row i holds only rising (dir = 1) or only
\* falling (dir = -1) closes.
Monotone(i, dir) ==
    /\ i - tc_call[2] + 1 >= 2
    /\ \A k \in (i - tc_call[2] + 1) .. i :
          (tc_df.close[k] - tc_df.close[k - 1]) * dir > 0

\* C22: every defined value produced by calculate_rsi lies in [0, 100]; a
\* window with only rising closes gives 100 and one with only falling closes
\* gives 0.
C22_RsiBounded ==
    (tc_result.kind = "return" /\ tc_call[1] = "calculate_rsi") =>
        \A i \in DOMAIN tc_result.rsi :
            /\ RsiDefined(i) =>
                  /\ tc_result.rsi[i][2] > 0
                  /\ 0 <= tc_result.rsi[i][1]
                  /\ tc_result.rsi[i][1] <= 100 * tc_result.rsi[i][2]
            /\ Monotone(i, 1) =>
                  /\ RsiDefined(i)
                  /\ tc_result.rsi[i][1] = 100 * tc_result.rsi[i][2]
            /\ Monotone(i, -1) =>
                  /\ RsiDefined(i)
                  /\ tc_result.rsi[i][1] = 0

\* calculate_rsi with window 2 on closes 1 2 3 2 1: 100 on the rising rows, a
\* value strictly between on the mixed row, 0 on the falling row.
C22_Witness ==
    /\ tc_call = <<"calculate_rsi", 2>>
    /\ tc_df.close = <<1, 2, 3, 2, 1>>
    /\ tc_result.kind = "return"
    /\ tc_result.rsi[3][1] = 100 * tc_result.rsi[3][2]
    /\ tc_result.rsi[4][1] > 0
    /\ tc_result.rsi[4][1] < 100 * tc_result.rsi[4][2]
    /\ tc_result.rsi[5][1] = 0

\* C23: any indicator calculator called on a bar series with zero rows raises
\* an error; it never returns a table with derived columns.
C23_EmptyRaises ==
    (tc_result.kind # "none" /\ tc_df.close = <<>>) => tc_result.kind = "raise"

\* C30: whenever get_option_pcr reports type 'options', its pcr is put volume
\* divided by call volume, and the data_utils copy and the dashboard copy
\* compute the same ratio from the same option table.
C30_PutOverCall ==
    LET calls == pcr_table.call_buy + pcr_table.call_sell
        puts == pcr_table.put_buy + pcr_table.put_sell
    IN /\ \A c \in {"data_utils", "dashboard"} :
              (pcr_result[c].type = "options" /\ calls > 0) =>
                  pcr_result[c].pcr[1] * calls = puts * pcr_result[c].pcr[2]
       /\ (\A c \in {"data_utils", "dashboard"} : pcr_result[c].type = "options") =>
              pcr_result["data_utils"].pcr[1] * pcr_result["dashboard"].pcr[2]
                 = pcr_result["dashboard"].pcr[1] * pcr_result["data_utils"].pcr[2]

\* The jobs the scheduler holds: stored or pending.
JobsHeld == aps_store \cup {aps_pending[k] : k \in DOMAIN aps_pending}

\* C26: after add_market_hours_task(task, minutes) returns, the scheduler
\* holds three interval jobs for the task, one per trading session, each with
\* a start time before its end time, and the three returned job ids identify
\* three distinct jobs.
C26_ThreeSessionJobs ==
    sch_last[1] = "add_market_hours_task" =>
        LET held == {j \in JobsHeld : j.trigger = "interval" /\ j.id.name = sch_last[2]
                                         /\ j.id.nums[1] = sch_last[3]}
        IN /\ Cardinality(held) = 3
           /\ \A j \in held : j.start_date[1] < j.end_date[1]
           /\ Len(sch_ret) = 3
           /\ \A a, b \in DOMAIN sch_ret : a # b => sch_ret[a] # sch_ret[b]
           /\ \A a \in DOMAIN sch_ret : \E j \in held : j.id = sch_ret[a]

\* The calls of the sequence alternate, beginning with start.
Alternates(calls) ==
    \A i \in DOMAIN calls : calls[i].name = IF i % 2 = 1 THEN "start" ELSE "shutdown"

SucceededCall(c) == c.ok

\* Outside the lock the running flag is true exactly when the last
\* successful underlying call was start.
FlagFollowsCalls ==
    LET done == SelectSeq(und_log, SucceededCall)
    IN sc_lock = 0 => (sc_running <=> (done # <<>> /\ done[Len(done)].name = "start"))

\* C29 as stated: under any interleaving of concurrent start() and stop()
\* calls the underlying start and shutdown are invoked in strict alternation
\* beginning with start, and outside the lock the running flag is true
\* exactly when the last successful underlying call was start.
\* (Violated: a start that raised is followed by another start.)
C29_InvokedAlternately ==
    /\ Alternates(und_log)
    /\ FlagFollowsCalls

\* C29 amended: the underlying start and shutdown calls that succeed
\* alternate strictly, beginning with start (a call that raised may be
\* followed by the same call), and outside the lock the running flag is true
\* exactly when the last successful underlying call was start, so a call
\* that raises leaves the flag unchanged.
C29_SucceededAlternately ==
    /\ Alternates(SelectSeq(und_log, SucceededCall))
    /\ FlagFollowsCalls

\* Start, shutdown and start succeeded around a start that raised, while the
\* other thread waits for the lock.
C29_Witness ==
    /\ Len(und_log) = 4
    /\ \E i \in DOMAIN und_log : ~und_log[i].ok
    /\ Len(SelectSeq(und_log, SucceededCall)) = 3
    /\ sc_running
    /\ sc_lock = 0
    /\ \E t \in {1, 2} : sc_pc[t] = "acquire"

\* pre_market_scan and intraday_check run at the same time.
RunTogether == rc_pc["pre_market_scan"] # "idle" /\ rc_pc["intraday_check"] # "idle"

\* The running intraday_check iterates a list other than the one it
\* fetched data for.
TwoTop5Values == rc_pc["intraday_check"] = "loop" /\ rc_fetched # rc_iterated

\* A write of the running intraday_check to latest_analysis has been
\* overwritten by pre_market_scan.
WriteOverwritten ==
    /\ rc_pc["intraday_check"] = "loop"
    /\ \E sym \in rc_intraday : rc_latest[sym] = "pre_market_scan"

\* C25: scheduled jobs on the same StrategyManager are not mutually excluded:
\* a job that is due starts whatever the other jobs are doing, and a running
\* job's next step never waits for another job. (The interleaving the claim
\* describes is the state C25_Witness.)
C25_NotExcluded ==
    \A j \in ScheduledJobs :
        IF rc_pc[j] = "idle" THEN ENABLED FireJob(j) ELSE ENABLED ThreadStep(j)

\* pre_market_scan and intraday_check run at the same time, and the
\* intraday_check run iterates a list other than the one it fetched data for.
C25_Witness == RunTogether /\ TwoTop5Values

====
